---------------------------- MODULE Spec2Model ----------------------------
(***************************************************************************)
(* A model of the quantitative handicapping engine                         *)
(* (deployment_package/quantitative_analysis.py, class QuantitativeAnalyzer)*)
(* and of the backtesting simulator (deployment_package/backtester.py,     *)
(* class Backtester).                                                      *)
(*                                                                         *)
(* Units.  Body weights and weight deltas are whole kilograms.  Sectional  *)
(* times are tenths of a second (12.5 s is 125).  Scores that the code     *)
(* rounds to one decimal are kept in tenths of a point (15.0 is 150).      *)
(*                                                                         *)
(* Python values that may be a number, an unparsable string / None, or a   *)
(* missing dict key are tagged records [t, v] (see Num, Str, Absent).      *)
(***************************************************************************)
EXTENDS Integers, Sequences, FiniteSets, TLC

VARIABLES
    analyzer,   \* the QuantitativeAnalyzer instance: its configuration fields
    args,       \* the arguments of the scorer call under examination
    ret,        \* the value that call returned (NoRet before the call)
    pc,         \* control point
    card,       \* the race card being analysed (a DataFrame, row by row)
    sim_results, \* the analyses collected so far for that race card
    ranking,    \* the list rank_horses returned
    picks,      \* the dict generate_trio_picks returned / the backtest's picks
    cache,      \* the scraper's CSV cache: per calendar day, the files held
    data,       \* Backtester.run: the data loaded for the current date
    date_i,     \* Backtester.run: position in the list of dates
    race_groups, \* Backtester.run: the race groups of the date still to do
    results,    \* Backtester.run: the outcome rows recorded so far
    veto_stats, \* Backtester.run: the veto counters
    w_bonus_stats, \* Backtester.run: the wide-runner bonus counters
    collected,  \* the calls of KRAScraper.collect_all made so far
    tuner       \* Backtester.tune_parameters: its loop state

btVars == <<cache, data, date_i, race_groups, results, veto_stats, w_bonus_stats, collected, tuner>>

vars == <<analyzer, args, ret, pc, card, sim_results, ranking, picks, btVars>>

\* The backtest variables while no backtest runs.
NoBacktest ==
    /\ cache = <<>>
    /\ data = [none |-> TRUE]
    /\ date_i = 0
    /\ race_groups = <<>>
    /\ results = <<>>
    /\ veto_stats = [total |-> 0, failed |-> 0]
    /\ w_bonus_stats = [total |-> 0, hit |-> 0]
    /\ collected = <<>>
    /\ tuner = [none |-> TRUE]

\* The race-level variables while a single scorer call is examined.
NoRace ==
    /\ card = <<>> /\ sim_results = <<>> /\ ranking = <<>>
    /\ picks = [none |-> TRUE]
    /\ NoBacktest

-----------------------------------------------------------------------------
(* Generic helpers *)

Abs(x) == IF x < 0 THEN -x ELSE x
Min(a, b) == IF a <= b THEN a ELSE b
Max(a, b) == IF a >= b THEN a ELSE b

\* All sequences over S of length at most n.
SeqUpTo(S, n) == UNION {[1..k -> S] : k \in 0..n}

NoRet == [none |-> TRUE]

\* A Python value read out of a dict: a number, something float() rejects
\* (a non-numeric string, None), or a missing key.
Num(v) == [t |-> "num", v |-> v]
Str == [t |-> "str", v |-> 0]
Absent == [t |-> "absent", v |-> 0]

-----------------------------------------------------------------------------
(* config.py: the analysis constants *)

WEIGHT_VETO_THRESHOLD == 5
TRAINING_MIN_COUNT == 14
TRAINING_STRONG_BONUS == 40
TRAINING_BASE_PER_SESSION == 2
RECENT_RACES_COUNT == 5
W_BONUS_ON_PLACEMENT == 30

\* config.POSITION_WEIGHTS, in the dict's insertion order.  A code is a
\* string, kept as the sequence of its characters.
POSITION_WEIGHTS ==
    << [key |-> <<"4", "M">>, pts |-> 50],
       [key |-> <<"3", "M">>, pts |-> 40],
       [key |-> <<"2", "M">>, pts |-> 30],
       [key |-> <<"F">>,      pts |-> 20],
       [key |-> <<"M">>,      pts |-> 10],
       [key |-> <<"C">>,      pts |-> 5],
       [key |-> <<"W">>,      pts |-> 0] >>

\* QuantitativeAnalyzer.__init__ with no keyword arguments.
DefaultAnalyzer ==
    [weight_threshold   |-> WEIGHT_VETO_THRESHOLD,
     train_min          |-> TRAINING_MIN_COUNT,
     train_strong_bonus |-> TRAINING_STRONG_BONUS,
     train_base         |-> TRAINING_BASE_PER_SESSION,
     recent_n           |-> RECENT_RACES_COUNT,
     w_bonus            |-> W_BONUS_ON_PLACEMENT,
     position_weights   |-> POSITION_WEIGHTS]

-----------------------------------------------------------------------------
(* 3. check_weight_veto *)

\* race.get("weight", 0) followed by float() under try/except: a missing key
\* reads as 0, a value float() rejects becomes 0.
HistWeight(race) ==
    LET w_val == IF race.weight.t = "absent" THEN Num(0) ELSE race.weight
    IN  IF w_val.t = "num" THEN w_val.v ELSE 0

\* Variant of PrevWeight that takes the weight of the most recent entry,
\* whatever it is.
PrevWeight_latest(race_history) ==
    IF race_history = <<>> THEN 0 ELSE HistWeight(Head(race_history))

\* The scan of lines 246-257: the first entry, in list order, whose weight is
\* positive; 0 when there is none.
RECURSIVE PrevWeight(_)
PrevWeight(race_history) ==
    IF race_history = <<>> THEN 0
    ELSE LET w == HistWeight(Head(race_history))
         IN  IF w > 0 THEN w ELSE PrevWeight(Tail(race_history))

\* Variant of NoPastWeight that never reports a missing comparison weight.
NoPastWeight_never(prev_weight) == FALSE

\* Line 259: no comparison weight was found.
NoPastWeight(prev_weight) == prev_weight = 0

\* The note is an f-string; the model keeps what it reports: its kind, the
\* direction of the change and the number of kilograms it prints.
Note(kind, direction, kg) == [kind |-> kind, direction |-> direction, kg |-> kg]

check_weight_veto(self, current_weight, race_history, weight_diff) ==
    IF current_weight = 0
    THEN [veto |-> FALSE, diff |-> 0, ideal_weight |-> 0,
          note |-> Note("no data", "", 0)]
    ELSE IF weight_diff # 0
    THEN LET diff == weight_diff
             is_veto == Abs(diff) >= self.weight_threshold
         IN  [veto |-> is_veto,
              diff |-> diff,
              ideal_weight |-> current_weight - diff,
              note |-> IF is_veto
                       THEN Note("VETO", IF diff > 0 THEN "increase"
                                                     ELSE "decrease", Abs(diff))
                       ELSE Note("normal range", "", diff)]
    ELSE LET prev_weight == PrevWeight(race_history)
         IN  IF NoPastWeight(prev_weight)
             THEN [veto |-> FALSE, diff |-> 0, ideal_weight |-> 0,
                   note |-> Note("no past weight data", "", 0)]
             ELSE LET diff == current_weight - prev_weight
                      is_veto == Abs(diff) >= self.weight_threshold
                  IN  [veto |-> is_veto,
                       diff |-> diff,
                       ideal_weight |-> prev_weight,
                       note |-> IF is_veto
                                THEN Note("VETO sudden change", "", diff)
                                ELSE Note("change vs previous", "", diff)]

-----------------------------------------------------------------------------
(* Specification SpecWeight: one call of check_weight_veto on a default    *)
(* analyzer, over every combination of the bounded inputs.                 *)

MaxHist == 3

\* A history entry in which only the recorded body weight is of interest.
BlankRace ==
    [rcDate |-> <<>>, s1f |-> 0, g1f |-> 0, ord |-> 99, pos |-> <<>>,
     corner |-> <<>>, weight |-> Absent, rcTime |-> <<>>]

WRace(w) == [BlankRace EXCEPT !.weight = w]

CurrentWeights == {0, 465, 470}
WeightDiffs == {-10, -5, -4, 0, 4, 5}
HistWeights == {Absent, Str, Num(0), Num(460), Num(465)}

WeightArgs ==
    [current_weight : CurrentWeights,
     race_history   : SeqUpTo({WRace(w) : w \in HistWeights}, MaxHist),
     weight_diff    : WeightDiffs]

InitWeight ==
    /\ analyzer = DefaultAnalyzer
    /\ args \in WeightArgs
    /\ ret = NoRet
    /\ pc = "call"
    /\ NoRace

CheckWeightVeto ==
    /\ pc = "call"
    /\ ret' = check_weight_veto(analyzer, args.current_weight,
                                args.race_history, args.weight_diff)
    /\ pc' = "done"
    /\ UNCHANGED <<analyzer, args, card, sim_results, ranking, picks, btVars>>

NextWeight == CheckWeightVeto

SpecWeight == InitWeight /\ [][NextWeight]_vars

-----------------------------------------------------------------------------
(* calc_interference_bonus *)

\* interference_keywords, in the dict's insertion order, and their weights.
\* The Korean keywords are written in romanised form:
\*   kkori = tail swishing, jinro = path, burigik = disadvantage,
\*   millyeo = pushed out, budit = collision, hyeopchak = squeezed,
\*   nakma = fall, juhaengbanghae = interference, neungryeok balhwi = could
\*   not show ability, geupgamsok = sudden deceleration, bullihan = unfavourable.
interference_keywords ==
    << [kw |-> "kkori",            weight |-> 3],
       [kw |-> "jinro",            weight |-> 3],
       [kw |-> "burigik",          weight |-> 4],
       [kw |-> "millyeo",          weight |-> 3],
       [kw |-> "budit",            weight |-> 4],
       [kw |-> "hyeopchak",        weight |-> 5],
       [kw |-> "nakma",            weight |-> 5],
       [kw |-> "juhaengbanghae",   weight |-> 4],
       [kw |-> "neungryeok balhwi", weight |-> 3],
       [kw |-> "geupgamsok",       weight |-> 3],
       [kw |-> "bullihan",         weight |-> 3] >>

\* penalty_keywords: warning, penalty, sanction, fine, riding suspension.
penalty_keywords ==
    {"gyeonggo", "beolchik", "jejae", "gwataeryo", "giseungjeongji"}

\* A report text is the sequence of its words; `kw in report_text` is true
\* when the keyword occurs in it.
Contains(report_text, kw) ==
    \E i \in 1..Len(report_text) : report_text[i] = kw

\* report_date.replace("/", "")
RemoveSlashes(str) == SelectSeq(str, LAMBDA c : c # "/")

\* str.split("-")[0]: the part before the first "-", the whole string when
\* it has none.
RECURSIVE BeforeDash(_)
BeforeDash(str) ==
    IF str = <<>> \/ Head(str) = "-" THEN <<>>
    ELSE <<Head(str)>> \o BeforeDash(Tail(str))

rpt_date_clean(report_date) == BeforeDash(RemoveSlashes(report_date))

\* Lines 338-343: the matched keywords, in dict order, and their weight sum.
RECURSIVE MatchKeywords(_, _)
MatchKeywords(kws, report_text) ==
    IF kws = <<>> THEN [matched |-> <<>>, score |-> 0]
    ELSE LET rest == MatchKeywords(Tail(kws), report_text)
             k == Head(kws)
         IN  IF Contains(report_text, k.kw)
             THEN [matched |-> <<k.kw>> \o rest.matched,
                   score |-> k.weight + rest.score]
             ELSE rest

\* Lines 348-355: the late sectional of the first history entry whose rcDate
\* equals the cleaned report date; 0 when there is none.
RECURSIVE G1fAtRace(_, _)
G1fAtRace(race_history, report_date) ==
    IF race_history = <<>> THEN 0
    ELSE IF Head(race_history).rcDate = rpt_date_clean(report_date)
         THEN Head(race_history).g1f
         ELSE G1fAtRace(Tail(race_history), report_date)

\* Lines 358-369: the tiered late-sectional bonus.
G1fBonus(g1f_at_race) ==
    IF g1f_at_race > 0
    THEN IF g1f_at_race <= 125 THEN 8
         ELSE IF g1f_at_race <= 130 THEN 5
         ELSE IF g1f_at_race <= 135 THEN 3
         ELSE 0
    ELSE 0

G1fNote(g1f_at_race) ==
    IF g1f_at_race > 0
    THEN IF g1f_at_race <= 125 THEN "very strong"
         ELSE IF g1f_at_race <= 130 THEN "strong"
         ELSE IF g1f_at_race <= 135 THEN "fair"
         ELSE ""
    ELSE ""

\* Variant of ReportScore without the cap.
ReportScore_uncapped(keyword_score, g1f_bonus) == keyword_score + g1f_bonus

\* Line 371: the score of one qualifying report.
ReportScore(keyword_score, g1f_bonus) == Min(keyword_score + g1f_bonus, 15)

\* Variant of Qualifies that ignores the penalty keywords.
Qualifies_despite_penalty(matched_keywords, is_penalty) ==
    matched_keywords # <<>>

\* Line 345: the report counts when it matched a keyword and is no penalty.
Qualifies(matched_keywords, is_penalty) ==
    matched_keywords # <<>> /\ ~is_penalty

\* One iteration of the loop of lines 330-380: the detail entry the report
\* appends, as a sequence of length 0 or 1.
ReportDetail(rpt, race_history) ==
    LET is_penalty == \E pk \in penalty_keywords : Contains(rpt.report, pk)
        m == MatchKeywords(interference_keywords, rpt.report)
    IN  IF Qualifies(m.matched, is_penalty)
        THEN LET g1f_at_race == G1fAtRace(race_history, rpt.date)
             IN  << [date |-> rpt.date,
                     keywords |-> m.matched,
                     g1f |-> g1f_at_race,
                     g1f_note |-> G1fNote(g1f_at_race),
                     score |-> ReportScore(m.score, G1fBonus(g1f_at_race))] >>
        ELSE <<>>

RECURSIVE ReportDetails(_, _)
ReportDetails(steward_reports, race_history) ==
    IF steward_reports = <<>> THEN <<>>
    ELSE ReportDetail(Head(steward_reports), race_history)
         \o ReportDetails(Tail(steward_reports), race_history)

RECURSIVE SumScores(_)
SumScores(details) ==
    IF details = <<>> THEN 0
    ELSE Head(details).score + SumScores(Tail(details))

\* Line 383: the cap on the total.
FinalScore(total_score) == Min(total_score, 25)

\* Variant of StrongG1f that also accepts the "fair" tier (up to 13.5 s).
StrongG1f_fair(d) == d.g1f > 0 /\ d.g1f <= 135

\* Line 389: a detail entry whose matched run has a measured late sectional
\* of at most 13.0 s.
StrongG1f(d) == d.g1f > 0 /\ d.g1f <= 130

calc_interference_bonus(self, steward_reports, race_history) ==
    IF steward_reports = <<>>
    THEN [interference_score |-> 0, interference_count |-> 0,
          dark_horse |-> FALSE, dark_horse_reason |-> "", details |-> <<>>]
    ELSE
    LET details == ReportDetails(steward_reports, race_history)
        \* interference_count is incremented exactly where a detail is appended
        interference_count == Len(details)
        total_score == SumScores(details)
        strong_g1f_interferences == SelectSeq(details, StrongG1f)
    IN  [interference_score |-> FinalScore(total_score),
         interference_count |-> interference_count,
         dark_horse |-> \/ Len(strong_g1f_interferences) >= 1
                        \/ interference_count >= 2,
         dark_horse_reason |->
             IF Len(strong_g1f_interferences) >= 1
             THEN "interference + strong finish"
             ELSE IF interference_count >= 2 THEN "repeated interference"
             ELSE "",
         details |-> details]

-----------------------------------------------------------------------------
(* Arithmetic on the exact values behind the code's floats.                *)
(*                                                                         *)
(* A quantity the code holds as a float is kept as a fraction num/den of   *)
(* integers.  Where the code rounds or compares a float whose exact value  *)
(* lies precisely on the rounding tie or on the threshold, the binary      *)
(* rounding error of the preceding operations decides the outcome; the     *)
(* model then allows both outcomes.  Off the tie the outcome is unique.    *)

\* floor(num / den) for den > 0, also for negative num.
FloorDiv(num, den) == num \div den

\* round(num/den) to the nearest integer: the set of possible results.
RoundOutcomes(num, den) ==
    LET q == FloorDiv(num, den)
        r == num - q * den
    IN  IF 2 * r < den THEN {q}
        ELSE IF 2 * r > den THEN {q + 1}
        ELSE {q, q + 1}

\* round(num/den) where no tie can be decided by rounding error because the
\* value is exactly representable or never on a tie: ties to even.
RoundHalfEven(num, den) ==
    LET q == FloorDiv(num, den)
        r == num - q * den
    IN  IF 2 * r < den THEN q
        ELSE IF 2 * r > den THEN q + 1
        ELSE IF q % 2 = 0 THEN q ELSE q + 1

\* The outcomes of the float comparison x <= y given the exact values' order:
\* cmp is -1 (x below y), 0 (exactly equal) or 1 (x above y).
LeOutcomes(cmp) == IF cmp < 0 THEN {TRUE} ELSE IF cmp > 0 THEN {FALSE} ELSE BOOLEAN

Sign(x) == IF x < 0 THEN -1 ELSE IF x > 0 THEN 1 ELSE 0

\* floor(sqrt(x)) for x >= 0.
RECURSIVE ISqrt(_)
ISqrt(x) ==
    IF x < 2 THEN x
    ELSE LET s == 2 * ISqrt(x \div 4)
         IN  IF (s + 1) * (s + 1) <= x THEN s + 1 ELSE s

\* The largest t in lo..hi with (200 s + t)^2 <= 40000 (s^2 + r), found by
\* bisection; written without the products that exceed the integer range.
RECURSIVE SqrtDigits(_, _, _, _)
SqrtDigits(s, r, lo, hi) ==
    IF lo = hi THEN lo
    ELSE LET mid == (lo + hi + 1) \div 2
         IN  IF 400 * s * mid + mid * mid <= 40000 * r
             THEN SqrtDigits(s, r, mid, hi)
             ELSE SqrtDigits(s, r, lo, mid - 1)

\* floor(200 * sqrt(x)) for x >= 0.
Sqrt200(x) ==
    LET s == ISqrt(x) IN 200 * s + SqrtDigits(s, x - s * s, 0, 199)

RECURSIVE SeqSum(_)
SeqSum(xs) == IF xs = <<>> THEN 0 ELSE Head(xs) + SeqSum(Tail(xs))

RECURSIVE SeqSumSq(_)
SeqSumSq(xs) ==
    IF xs = <<>> THEN 0 ELSE Head(xs) * Head(xs) + SeqSumSq(Tail(xs))

\* race_history[:n]
Recent(race_history, n) == SubSeq(race_history, 1, Min(n, Len(race_history)))

-----------------------------------------------------------------------------
(* 1. calc_speed_score *)

\* Lines 55-56: the truthy values of a sectional field over the window.
RECURSIVE SectionalVals(_, _)
SectionalVals(recent, field) ==
    IF recent = <<>> THEN <<>>
    ELSE (IF Head(recent)[field] # 0 THEN <<Head(recent)[field]>> ELSE <<>>)
         \o SectionalVals(Tail(recent), field)

\* np.mean rounded to 3 decimals, in thousandths of a second (values are
\* tenths of a second); 0 for an empty list.
Avg3(vals) ==
    IF vals = <<>> THEN 0 ELSE RoundHalfEven(100 * SeqSum(vals), Len(vals))

\* n^2 times the population variance of vals, in squared tenths.
VarNum(vals) == Len(vals) * SeqSumSq(vals) - SeqSum(vals) * SeqSum(vals)

\* np.std rounded to 3 decimals, in thousandths of a second; 0 when there
\* are fewer than two values (lines 59, 61).
Std3(vals) ==
    IF Len(vals) > 1
    THEN (Sqrt200(VarNum(vals)) + Len(vals)) \div (2 * Len(vals))
    ELSE 0

\* Lines 126, 128: std < 0.3 (0.3 s is 3 tenths: variance < 9 squared tenths).
StdBelowOutcomes(vals) ==
    IF Len(vals) > 1
    THEN LET c == Sign(VarNum(vals) - 9 * Len(vals) * Len(vals))
         IN  IF c < 0 THEN {TRUE} ELSE IF c > 0 THEN {FALSE} ELSE BOOLEAN
    ELSE {TRUE}

\* Variant of VectorOutcomes with the upper threshold at 1.10.
VectorOutcomes_wide(s1f_vals, g1f_vals) ==
    IF SeqSum(s1f_vals) > 0 /\ SeqSum(g1f_vals) > 0
    THEN LET gn == SeqSum(g1f_vals) * Len(s1f_vals)
             sm == SeqSum(s1f_vals) * Len(g1f_vals)
         IN  { IF le102 THEN "Strong"
               ELSE IF le110 THEN "Maintaining" ELSE "Fading" :
                   le102 \in LeOutcomes(Sign(100 * gn - 102 * sm)),
                   le110 \in LeOutcomes(Sign(100 * gn - 110 * sm)) }
    ELSE {"N/A"}

\* Lines 58, 60: the sign of np.mean(vals), 0 for an empty list.
AvgSign(vals) == Sign(SeqSum(vals))

\* Lines 64-73: the endurance vector from the two means.
VectorOutcomes(s1f_vals, g1f_vals) ==
    IF AvgSign(s1f_vals) > 0 /\ AvgSign(g1f_vals) > 0
    THEN LET gn == SeqSum(g1f_vals) * Len(s1f_vals)   \* ratio = gn / sm
             sm == SeqSum(s1f_vals) * Len(g1f_vals)
         IN  { IF le102 THEN "Strong"
               ELSE IF le108 THEN "Maintaining" ELSE "Fading" :
                   le102 \in LeOutcomes(Sign(100 * gn - 102 * sm)),
                   le108 \in LeOutcomes(Sign(100 * gn - 108 * sm)) }
    ELSE {"N/A"}

\* Lines 84-99: one rcTime value, as the list of its ":"-separated parts after
\* the noise characters are removed; each part is Num(tenths of a second or
\* of a minute) when float() accepts it and Str when it raises.  The result
\* is the time in tenths of a second, or 0 when nothing is appended.
RcTimeVal(rt) ==
    IF Len(rt) = 2
    THEN IF rt[1].t = "num" /\ rt[2].t = "num"
         THEN Max(rt[1].v * 60 + rt[2].v, 0) ELSE 0
    ELSE IF Len(rt) = 1
    THEN IF rt[1].t = "num" THEN Max(rt[1].v, 0) ELSE 0
    ELSE 0

RECURSIVE RcTimes(_)
RcTimes(recent) ==
    IF recent = <<>> THEN <<>>
    ELSE (IF RcTimeVal(Head(recent).rcTime) > 0
          THEN <<RcTimeVal(Head(recent).rcTime)>> ELSE <<>>)
         \o RcTimes(Tail(recent))

\* Lines 111-117: max(0, (14 - avg) / 14 * 50) as a fraction over 7 * n,
\* times 10 (tenths of a point): 25 * (140 n - sum) / (7 n).
SectionalScoreNum(vals) == Max(25 * (140 * Len(vals) - SeqSum(vals)), 0)

\* Lines 76-129: ten times the unrounded speed score as a fraction, given the
\* vector and the two consistency decisions.
SpeedScoreFrac(recent, s1f_vals, g1f_vals, g1f_vector, s_stable, g_stable) ==
    IF AvgSign(s1f_vals) = 0 /\ AvgSign(g1f_vals) = 0
    THEN LET rc_times == RcTimes(recent)
         IN  IF rc_times # <<>>
             \* max(0, (80 - avg_time) / 20 * 100)
             THEN [num |-> Max(4000 * Len(rc_times) - 5 * SeqSum(rc_times), 0),
                   den |-> Len(rc_times)]
             ELSE [num |-> 0, den |-> 1]
    ELSE LET n == IF s1f_vals = <<>> THEN 1 ELSE Len(s1f_vals)
             m == IF g1f_vals = <<>> THEN 1 ELSE Len(g1f_vals)
             s1f_score == IF AvgSign(s1f_vals) > 0
                          THEN SectionalScoreNum(s1f_vals)       \* over 7 n
                          ELSE 0
             g1f_score == IF AvgSign(g1f_vals) > 0
                          THEN SectionalScoreNum(g1f_vals)       \* over 7 m
                          ELSE 0
             bonus == (IF g1f_vector = "Strong" THEN 15
                       ELSE IF g1f_vector = "Maintaining" THEN 8 ELSE 0)
                      + (IF s_stable /\ s1f_vals # <<>> THEN 5 ELSE 0)
                      + (IF g_stable /\ g1f_vals # <<>> THEN 5 ELSE 0)
         IN  [num |-> s1f_score * m + g1f_score * n + 10 * bonus * 7 * n * m,
              den |-> 7 * n * m]

\* Variant of ClampRoundOutcomes without the upper clamp.
ClampRoundOutcomes_unclamped(f) == RoundOutcomes(f.num, f.den)

\* round(min(speed_score, 100), 1), in tenths of a point: the outcomes.
ClampRoundOutcomes(f) ==
    IF f.num >= 1000 * f.den THEN {1000} ELSE RoundOutcomes(f.num, f.den)

\* The set of values calc_speed_score can return for a history.
calc_speed_score(self, race_history) ==
    IF race_history = <<>>
    THEN { [s1f_avg |-> 0, s1f_std |-> 0, g1f_avg |-> 0, g1f_std |-> 0,
            g1f_vector |-> "N/A", speed_score |-> 0] }
    ELSE
    LET recent == Recent(race_history, self.recent_n)
        s1f_vals == SectionalVals(recent, "s1f")
        g1f_vals == SectionalVals(recent, "g1f")
        fallback == /\ AvgSign(s1f_vals) = 0 /\ AvgSign(g1f_vals) = 0
                    /\ RcTimes(recent) # <<>>
    IN  UNION {
          { [s1f_avg |-> Avg3(s1f_vals),
             s1f_std |-> Std3(s1f_vals),
             g1f_avg |-> Avg3(g1f_vals),
             g1f_std |-> Std3(g1f_vals),
             g1f_vector |-> IF fallback THEN "record-based" ELSE c[1],
             speed_score |-> sc] :
               sc \in ClampRoundOutcomes(
                         SpeedScoreFrac(recent, s1f_vals, g1f_vals,
                                        c[1], c[2], c[3])) } :
          c \in VectorOutcomes(s1f_vals, g1f_vals)
                \X StdBelowOutcomes(s1f_vals) \X StdBelowOutcomes(g1f_vals) }

-----------------------------------------------------------------------------
(* 2. calc_position_score *)

\* str.upper() on the characters the codes use.
UpperChar(c) ==
    CASE c = "m" -> "M" [] c = "f" -> "F" [] c = "c" -> "C" [] c = "w" -> "W"
      [] OTHER -> c

Upper(str) == [i \in 1..Len(str) |-> UpperChar(str[i])]

\* key in str: key occurs in str as a contiguous substring.
IsSubstr(key, str) ==
    \E i \in 0..(Len(str) - Len(key)) :
        \A j \in 1..Len(key) : str[i + j] = key[j]

\* Lines 175-178: the points of the first table key contained in corner.
RECURSIVE CornerPts(_, _)
CornerPts(weights, corner) ==
    IF weights = <<>> THEN 0
    ELSE IF IsSubstr(Head(weights).key, corner) THEN Head(weights).pts
    ELSE CornerPts(Tail(weights), corner)

\* Line 181: position_weights.get(pos, 0).
RECURSIVE PosPts(_, _)
PosPts(weights, pos) ==
    IF weights = <<>> THEN 0
    ELSE IF Head(weights).key = pos THEN Head(weights).pts
    ELSE PosPts(Tail(weights), pos)

\* Variant of Placed that counts a fourth place too.
Placed_fourth(ord_val) == ord_val <= 4

\* Line 173: the entry placed.
Placed(ord_val) == ord_val <= 3

\* Lines 166-195: the detail entry of one race, with its wide-bonus flag.
PositionDetail(self, race) ==
    LET ord_val == race.ord
        pos == Upper(race.pos)
        corner == Upper(race.corner)
        wide == IsSubstr(<<"W">>, pos) \/ IsSubstr(<<"W">>, corner)
        race_score ==
            IF Placed(ord_val)
            THEN CornerPts(self.position_weights, corner)
                 + PosPts(self.position_weights, pos)
                 + (IF wide THEN self.w_bonus ELSE 0)
            ELSE 0
    IN  [ord |-> ord_val, pos |-> pos, corner |-> corner, score |-> race_score,
         w_bonus |-> Placed(ord_val) /\ wide]

calc_position_score(self, race_history) ==
    IF race_history = <<>>
    THEN [position_score |-> 0, w_bonus_count |-> 0, details |-> <<>>]
    ELSE
    LET recent == Recent(race_history, self.recent_n)
        all == [i \in 1..Len(recent) |-> PositionDetail(self, recent[i])]
    IN  [position_score |-> SumScores(all),
         w_bonus_count |-> Len(SelectSeq(all, LAMBDA d : d.w_bonus)),
         details |-> [i \in 1..Len(all) |->
                        [ord |-> all[i].ord, pos |-> all[i].pos,
                         corner |-> all[i].corner, score |-> all[i].score]]]

-----------------------------------------------------------------------------
(* 4. calc_training_score *)

\* "강" in str(value): the training-type strings that contain the character
\* for a strong session ("gang" = 강, "gangjogyo" = 강조교).
HasStrongMark(value) == value \in {"gang", "gangjogyo"}

\* Lines 427-430.
IsStrongSession(r) == HasStrongMark(r.type) \/ HasStrongMark(r.trGbn)

\* Variant of TrainingBonus that looks at the strong sessions first.
TrainingBonus_strong_first(self, count, strong_count) ==
    IF strong_count > 0 THEN 10
    ELSE IF count >= self.train_min THEN 15
    ELSE 0

\* Lines 436-446: the bonus tier.
TrainingBonus(self, count, strong_count) ==
    IF count >= self.train_min /\ strong_count > 0 THEN self.train_strong_bonus
    ELSE IF count >= self.train_min THEN 15
    ELSE IF strong_count > 0 THEN 10
    ELSE 0

calc_training_score(self, training_records) ==
    IF training_records = <<>>
    THEN [training_score |-> 0, count |-> 0, strong_count |-> 0,
          detail |-> "no training data"]
    ELSE
    LET count == Len(training_records)
        strong_count == Len(SelectSeq(training_records, IsStrongSession))
        score == count * self.train_base
                 + TrainingBonus(self, count, strong_count)
    IN  [training_score |-> Min(score, 100),
         count |-> count,
         strong_count |-> strong_count,
         detail |-> IF count >= self.train_min /\ strong_count > 0
                    THEN "sufficient training"
                    ELSE IF count >= self.train_min
                    THEN "enough sessions, none strong"
                    ELSE IF strong_count > 0
                    THEN "strong session, too few sessions"
                    ELSE "insufficient training"]

-----------------------------------------------------------------------------
(* analyze_horse *)

\* Variant of VetoAdjustment with a penalty of 5 points.
VetoAdjustment_mild(veto) == IF ~veto THEN 15 ELSE -5

\* Line 479: the adjustment for the weight check.
VetoAdjustment(veto) == IF ~veto THEN 15 ELSE -10

\* Lines 474-480: the weighted sum, in hundredths of a point (speed_score is
\* in tenths; the other sub-scores are whole points).
TotalHundredths(speed, position, weight, training, interference) ==
    3 * speed.speed_score
    + 30 * position.position_score
    + 25 * training.training_score
    + 100 * VetoAdjustment(weight.veto)
    + 15 * interference.interference_score

\* The rank field: absent until rank_horses sets it to a number or to the
\* string "VETO".
Unranked == Absent
VETO == [t |-> "VETO", v |-> 0]

\* Lines 482-514: the returned dict, for one outcome of the speed scorer and
\* one outcome of round(total, 1) (in tenths of a point).
HorseAnalysis(horse_name, total_score, speed, position, weight, training, interference) ==
    [horse_name |-> horse_name,
     total_score |-> total_score,
     speed_score |-> speed.speed_score,
     s1f_avg |-> speed.s1f_avg,
     g1f_avg |-> speed.g1f_avg,
     g1f_vector |-> speed.g1f_vector,
     position_score |-> position.position_score,
     veto |-> weight.veto,
     veto_reason |-> IF weight.veto THEN weight.note ELSE Note("", "", 0),
     training_score |-> training.training_score,
     interference_score |-> interference.interference_score,
     interference_count |-> interference.interference_count,
     dark_horse |-> interference.dark_horse,
     dark_horse_reason |-> interference.dark_horse_reason,
     speed |-> speed,
     position |-> position,
     weight |-> weight,
     training |-> training,
     interference |-> interference,
     hrNo |-> 0,
     rank |-> Unranked]

\* The set of values analyze_horse can return (one value, except where a
\* float rounding tie leaves two).
analyze_horse(self, horse_name, race_history, training_records, current_weight, weight_diff, steward_reports) ==
    LET position == calc_position_score(self, race_history)
        weight == check_weight_veto(self, current_weight, race_history,
                                    weight_diff)
        training == calc_training_score(self, training_records)
        interference == calc_interference_bonus(self, steward_reports,
                                                race_history)
    IN  UNION {
          { HorseAnalysis(horse_name, total_score, speed, position, weight,
                          training, interference) :
              total_score \in RoundOutcomes(
                  TotalHundredths(speed, position, weight, training,
                                  interference), 10) } :
          speed \in calc_speed_score(self, race_history) }

-----------------------------------------------------------------------------
(* rank_horses *)

\* The indices of xs, in order, whose element satisfies Test.
Indices(xs, Test(_)) ==
    SelectSeq([i \in 1..Len(xs) |-> i], LAMBDA i : Test(xs[i]))

\* Variant of InsertDesc that puts a horse ahead of the horses with an equal
\* score (the order an unstable sort could give).
RECURSIVE InsertDesc_unstable(_, _, _)
InsertDesc_unstable(sorted, i, analyses) ==
    IF sorted = <<>> THEN <<i>>
    ELSE IF analyses[Head(sorted)].total_score > analyses[i].total_score
         THEN <<Head(sorted)>> \o InsertDesc_unstable(Tail(sorted), i, analyses)
         ELSE <<i>> \o sorted

\* Insert index i into the index list sorted (descending by total_score of
\* analyses; equal scores keep the earlier-inserted index first).
RECURSIVE InsertDesc(_, _, _)
InsertDesc(sorted, i, analyses) ==
    IF sorted = <<>> THEN <<i>>
    ELSE IF analyses[Head(sorted)].total_score >= analyses[i].total_score
         THEN <<Head(sorted)>> \o InsertDesc(Tail(sorted), i, analyses)
         ELSE <<i>> \o sorted

\* list.sort(key=total_score, reverse=True): a stable sort, so elements with
\* equal keys keep their original relative order.
RECURSIVE SortDesc(_, _)
SortDesc(idx, analyses) ==
    IF idx = <<>> THEN <<>>
    ELSE InsertDesc(SortDesc(SubSeq(idx, 1, Len(idx) - 1), analyses),
                    idx[Len(idx)], analyses)

\* Line 521-522: a.get("veto") is truthy.
IsVetoed(a) == a.veto

\* Variant of RankOrder that sorts all horses by score, vetoed or not.
RankOrder_by_score_only(analyses) ==
    SortDesc([i \in 1..Len(analyses) |-> i], analyses)

\* The order of the returned list, as indices into analyses: the sorted
\* non-vetoed horses, then the vetoed horses.
RankOrder(analyses) ==
    LET valid == Indices(analyses, LAMBDA a : ~IsVetoed(a))
        vetoed == Indices(analyses, IsVetoed)
    IN  SortDesc(valid, analyses) \o vetoed

\* Lines 525-529: the rank written into the horse at position k of the
\* returned list.
RankAt(analyses, order, k) ==
    IF IsVetoed(analyses[order[k]]) THEN VETO ELSE Num(k)

rank_horses(self, analyses) ==
    LET order == RankOrder(analyses)
    IN  [k \in 1..Len(order) |->
            [analyses[order[k]] EXCEPT !.rank = RankAt(analyses, order, k)]]

\* rank_horses writes the rank into the dicts of its argument: the caller's
\* list holds the same objects and sees the ranks.
RankedInPlace(self, analyses) ==
    LET order == RankOrder(analyses)
    IN  [i \in 1..Len(analyses) |->
            LET k == CHOOSE k \in 1..Len(order) : order[k] = i
            IN  [analyses[i] EXCEPT !.rank = RankAt(analyses, order, k)]]

-----------------------------------------------------------------------------
(* generate_trio_picks *)
(* Horse numbers are digit strings; the model keeps them as the naturals   *)
(* they denote, 0 standing for the empty string / a missing value.         *)

\* Lines 554-557: hr_no_map, as a function from horse names to numbers; a
\* later row of entries_df overwrites an earlier row of the same name.
RECURSIVE HrNoMap(_)
HrNoMap(entries_df) ==
    IF entries_df = <<>> THEN [n \in {} |-> 0]
    ELSE LET rest == HrNoMap(SubSeq(entries_df, 1, Len(entries_df) - 1))
             row == entries_df[Len(entries_df)]
         IN  [n \in DOMAIN rest \cup {row.hrName} |->
                 IF n = row.hrName THEN row.hrNo ELSE rest[n]]

\* Lines 559-563: get_hr_no.  The fallback str(horse.get("hrNo",
\* horse.get("rank", "?"))) reads the hrNo key when the dict has one and the
\* rank otherwise.
get_hr_no(hr_no_map, horse) ==
    LET no == IF horse.horse_name \in DOMAIN hr_no_map
              THEN hr_no_map[horse.horse_name] ELSE 0
    IN  IF no # 0 THEN no
        ELSE IF horse.hrNo # 0 THEN horse.hrNo
        ELSE horse.rank.v

\* Variant of NotVetoRank that lets every horse through.
NotVetoRank_any(h) == TRUE

\* Line 548: the horses whose rank is not the VETO sentinel.
NotVetoRank(h) == h.rank # VETO

\* Lines 586-598: the three dark-horse tests; the reasons that apply.
DarkReasons(h) ==
    (IF h.dark_horse THEN <<h.dark_horse_reason>> ELSE <<>>)
    \o (IF h.g1f_vector = "Strong" /\ h.rank.v > 3 /\ h.g1f_avg <= 13300
        THEN <<"strong finish, undervalued">> ELSE <<>>)
    \o (IF h.s1f_avg > 14000 /\ h.g1f_avg <= 13000
        THEN <<"closer">> ELSE <<>>)

\* sorted(..., key=int): ascending order of a set of numbers.
RECURSIVE SortedAsc(_)
SortedAsc(S) ==
    IF S = {} THEN <<>>
    ELSE LET least == CHOOSE x \in S : \A y \in S : x <= y
         IN  <<least>> \o SortedAsc(S \ {least})

\* sorted([a, b, c], key=int): a stable sort of a three-element list.
SortedTriple(a, b, c) ==
    LET ab == IF a <= b THEN <<a, b>> ELSE <<b, a>>
    IN  IF c < ab[1] THEN <<c, ab[1], ab[2]>>
        ELSE IF c < ab[2] THEN <<ab[1], c, ab[2]>>
        ELSE <<ab[1], ab[2], c>>

\* str(n): the decimal digits of a natural, as character codes 1..10 for
\* "0".."9"; the dash of "-".join is code 0, below every digit as in ASCII.
RECURSIVE Digits(_)
Digits(n) == IF n < 10 THEN <<n + 1>> ELSE Digits(n \div 10) \o <<(n % 10) + 1>>

\* "-".join(c)
JoinKey(c) == Digits(c[1]) \o <<0>> \o Digits(c[2]) \o <<0>> \o Digits(c[3])

\* String comparison s < t.
RECURSIVE StrLess(_, _)
StrLess(s, t) ==
    IF t = <<>> THEN FALSE
    ELSE IF s = <<>> THEN TRUE
    ELSE IF Head(s) # Head(t) THEN Head(s) < Head(t)
    ELSE StrLess(Tail(s), Tail(t))

\* sorted(list(combos)): the combination strings in string order, each kept
\* as its triple of numbers.
RECURSIVE SortedCombos(_)
SortedCombos(combos) ==
    IF combos = {} THEN <<>>
    ELSE LET first == CHOOSE c \in combos :
                 \A e \in combos \ {c} : StrLess(JoinKey(c), JoinKey(e))
         IN  <<first>> \o SortedCombos(combos \ {first})

Insufficient ==
    [axis |-> <<>>, partners |-> <<>>,
     combinations |-> <<>>, num_bets |-> 0, dark_horses |-> <<>>,
     summary |-> "insufficient field"]

\* Variant of TooFew that asks for two horses only.
TooFew_two(valid) == Len(valid) < 2

\* Line 549: too few horses to build a combination.
TooFew(valid) == Len(valid) < 3

\* Variant of IsPicked that looks at the axis only.
IsPicked_axis_only(hr_no, axis, challengers) == hr_no = axis[1]

\* Line 609: the number is the axis or one of the challengers.
IsPicked(hr_no, axis, challengers) ==
    \/ \E i \in 1..Len(axis) : axis[i] = hr_no
    \/ \E i \in 1..Len(challengers) : challengers[i] = hr_no

generate_trio_picks(self, ranked, entries_df) ==
    LET valid == SelectSeq(ranked, NotVetoRank)
    IN  IF TooFew(valid) THEN Insufficient
        ELSE
        LET hr_no_map == HrNoMap(entries_df)
            no(h) == get_hr_no(hr_no_map, h)
            axis == <<no(valid[1])>>
            challengers ==
                (IF Len(valid) > 1 THEN <<no(valid[2])>> ELSE <<>>)
                \o (IF Len(valid) > 2 THEN <<no(valid[3])>> ELSE <<>>)
            ranked456 == {no(valid[i]) : i \in 4..Min(6, Len(valid))}
            dark == SelectSeq(valid, LAMBDA h : DarkReasons(h) # <<>>)
            dark_horses ==
                [i \in 1..Len(dark) |->
                    [hrNo |-> no(dark[i]),
                     horse_name |-> dark[i].horse_name,
                     reasons |-> DarkReasons(dark[i]),
                     total_score |-> dark[i].total_score,
                     g1f_avg |-> dark[i].g1f_avg]]
            partners_set ==
                ranked456 \cup
                {dark_horses[i].hrNo : i \in
                    {j \in 1..Len(dark_horses) :
                        ~IsPicked(dark_horses[j].hrNo, axis, challengers)}}
            partners == SortedAsc(partners_set)
            combos ==
                {SortedTriple(axis[1], challengers[c], partners[p]) :
                    c \in 1..Len(challengers), p \in 1..Len(partners)}
                \cup (IF Len(challengers) >= 2
                      THEN {SortedTriple(axis[1], challengers[1], challengers[2])}
                      ELSE {})
            final_combos == SortedCombos(combos)
        IN  [axis |-> axis,
             partners |-> challengers \o partners,
             combinations |-> final_combos,
             num_bets |-> Len(final_combos),
             dark_horses |-> dark_horses,
             summary |-> "axis / challengers / partners"]

-----------------------------------------------------------------------------
(* Specification SpecInterf: one call of calc_interference_bonus.          *)

MaxReports == 2
MaxRaces == 2

\* Dates as strings of characters: the compact form of the history's
\* rcDate; a steward report may carry the form "1/1-5R" (date 1/1, race 5).
Date11 == <<"1", "1">>
Date12 == <<"1", "2">>

ReportTexts ==
    { <<"normal", "run">>,
      <<"kkori">>,
      <<"hyeopchak", "nakma", "burigik">>,
      <<"hyeopchak", "nakma", "burigik", "budit">>,
      <<"gyeonggo", "hyeopchak", "nakma", "burigik">> }

G1fValues == {0, 125, 130, 135, 140}

GRace(d, g) == [BlankRace EXCEPT !.rcDate = d, !.g1f = g]

\* Past races: every late sectional on the first date, a fast and a missing
\* one on the second.
InterfRaces ==
    {GRace(Date11, g) : g \in G1fValues}
    \cup {GRace(Date12, 125), GRace(Date12, 0)}

\* Reports: every text dated in the report form, a mild and a severe one
\* dated in the compact form.
InterfReports ==
    {[date |-> <<"1", "/", "1", "-", "5", "R">>, report |-> t] :
        t \in ReportTexts}
    \cup {[date |-> Date12, report |-> <<"kkori">>],
          [date |-> Date12, report |-> <<"hyeopchak", "nakma", "burigik">>]}

InterfArgs ==
    [steward_reports : SeqUpTo(InterfReports, MaxReports),
     race_history    : SeqUpTo(InterfRaces, MaxRaces)]

InitInterf ==
    /\ analyzer = DefaultAnalyzer
    /\ args \in InterfArgs
    /\ ret = NoRet
    /\ pc = "call"
    /\ NoRace

CalcInterferenceBonus ==
    /\ pc = "call"
    /\ ret' = calc_interference_bonus(analyzer, args.steward_reports,
                                      args.race_history)
    /\ pc' = "done"
    /\ UNCHANGED <<analyzer, args, card, sim_results, ranking, picks, btVars>>

NextInterf == CalcInterferenceBonus

SpecInterf == InitInterf /\ [][NextInterf]_vars

-----------------------------------------------------------------------------
(* Specification SpecScores: one call of calc_speed_score or of            *)
(* calc_training_score.                                                    *)

MaxSpeedHist == 3
MaxSessions == 31

SRace(s1f, g1f, rcTime) ==
    [BlankRace EXCEPT !.s1f = s1f, !.g1f = g1f, !.rcTime = rcTime]

\* Past races by their sectionals (tenths of a second) and total time:
\* late/early exactly 1.02 and exactly 1.08, a fading run, sectionals of one
\* second, a run over 14 s early with an unreadable total time, a late
\* sectional only, total times of 1:13.4 and of half a second only, a
\* negative early sectional, and a run with nothing on record.
SpeedRaces ==
    { SRace(100, 102, <<>>),
      SRace(100, 108, <<>>),
      SRace(120, 131, <<>>),
      SRace(10, 10, <<>>),
      SRace(145, 0, <<Str, Num(134)>>),
      SRace(0, 125, <<Num(5)>>),
      SRace(0, 0, <<Num(10), Num(134)>>),
      SRace(0, 0, <<Num(5)>>),
      SRace(-100, 0, <<Num(700)>>),
      SRace(0, 0, <<>>) }

\* Older runs behind the first ones, so that a history exceeds the window.
OlderRuns == { <<>>, [i \in 1..3 |-> SRace(120, 131, <<>>)] }

\* n training sessions of one type.
Sessions(n, type) == [i \in 1..n |-> [type |-> type, trGbn |-> ""]]

\* Training lists: strong sessions (marked in type or in trGbn) followed by
\* normal ones.
TrainingLists ==
    { [i \in 1..k |-> [type |-> "gang", trGbn |-> ""]] \o Sessions(n - k, "bo") :
          n \in 0..MaxSessions, k \in 0..2 }
    \cup { <<[type |-> "", trGbn |-> "gangjogyo"]>> \o Sessions(n, "ga") :
              n \in 0..MaxSessions }

ScoreArgs ==
    { [fn |-> "calc_speed_score", race_history |-> h \o older] :
          h \in SeqUpTo(SpeedRaces, MaxSpeedHist), older \in OlderRuns }
    \cup { [fn |-> "calc_training_score", training_records |-> t] :
              t \in TrainingLists }

InitScores ==
    /\ analyzer = DefaultAnalyzer
    /\ args \in ScoreArgs
    /\ ret = NoRet
    /\ pc = "call"
    /\ NoRace

CalcSpeedScore ==
    /\ pc = "call"
    /\ args.fn = "calc_speed_score"
    /\ ret' \in calc_speed_score(analyzer, args.race_history)
    /\ pc' = "done"
    /\ UNCHANGED <<analyzer, args, card, sim_results, ranking, picks, btVars>>

CalcTrainingScore ==
    /\ pc = "call"
    /\ args.fn = "calc_training_score"
    /\ ret' = calc_training_score(analyzer, args.training_records)
    /\ pc' = "done"
    /\ UNCHANGED <<analyzer, args, card, sim_results, ranking, picks, btVars>>

NextScores == CalcSpeedScore \/ CalcTrainingScore

SpecScores == InitScores /\ [][NextScores]_vars

-----------------------------------------------------------------------------
(* Specification SpecPosition: one call of calc_position_score on a        *)
(* default analyzer, over histories longer than the window of recent       *)
(* races.                                                                  *)

MaxPosHist == 6

PRace(ord, pos, corner) ==
    [BlankRace EXCEPT !.ord = ord, !.pos = pos, !.corner = corner]

\* A win from the front, a third place raced wide (codes in lower case), an
\* unplaced run raced wide, and a second place with the wide marker in both
\* codes.
PositionRaces ==
    { PRace(1, <<"F">>, <<"4", "M">>),
      PRace(3, <<"w">>, <<"3", "m">>),
      PRace(4, <<"W">>, <<"4", "M">>),
      PRace(2, <<"W">>, <<"2", "M", "W">>) }

PositionArgs == [race_history : SeqUpTo(PositionRaces, MaxPosHist)]

InitPosition ==
    /\ analyzer = DefaultAnalyzer
    /\ args \in PositionArgs
    /\ ret = NoRet
    /\ pc = "call"
    /\ NoRace

CalcPositionScore ==
    /\ pc = "call"
    /\ ret' = calc_position_score(analyzer, args.race_history)
    /\ pc' = "done"
    /\ UNCHANGED <<analyzer, args, card, sim_results, ranking, picks, btVars>>

NextPosition == CalcPositionScore

SpecPosition == InitPosition /\ [][NextPosition]_vars

-----------------------------------------------------------------------------
(* Horses of the model: the data a race card row leads to.                 *)

Race(s1f, g1f, ord, pos, corner, weight, rcDate) ==
    [rcDate |-> rcDate, s1f |-> s1f, g1f |-> g1f, ord |-> ord, pos |-> pos,
     corner |-> corner, weight |-> weight, rcTime |-> <<>>]

HFast ==
    << Race(121, 123, 1, <<"F">>, <<"4", "M">>, Num(468), Date11),
       Race(123, 125, 2, <<"M">>, <<"3", "M">>, Num(470), Date12) >>
HCloser == << Race(141, 128, 4, <<"C">>, <<>>, Num(468), Date11) >>
HNoLate == << Race(141, 0, 5, <<"w">>, <<"2", "m">>, Num(468), Date11) >>
HWeightOnly == << WRace(Num(460)) >>

Horse(hist, training, weight, wdiff, reports) ==
    [hist |-> hist, training |-> training, weight |-> weight,
     wdiff |-> wdiff, reports |-> reports]

\* A fit horse, and the same horse 12 kg heavier than at its last run.
HorseFit == Horse(HFast, Sessions(14, "bo") \o Sessions(1, "gang"), 470, 0, <<>>)
HorseHeavy == Horse(HFast, Sessions(14, "bo") \o Sessions(1, "gang"), 480, 0, <<>>)
\* Interfered with twice, once in a run with a fast late sectional.
HorseUnlucky ==
    Horse(HFast, <<>>, 470, 0,
          << [date |-> <<"1", "/", "1", "-", "5", "R">>,
              report |-> <<"hyeopchak", "nakma", "burigik">>],
             [date |-> Date12, report |-> <<"kkori">>] >>)
\* Slow early, fast late; and slow early with no late sectional on record.
HorseCloser == Horse(HCloser, Sessions(3, "bo"), 468, 0, <<>>)
HorseNoLate == Horse(HNoLate, Sessions(3, "bo"), 468, 0, <<>>)
\* Only a past weight on record, six light sessions, one mild report; with
\* the weight 2 kg and 10 kg above the recorded one.
HorseSteady ==
    Horse(HWeightOnly, Sessions(6, "bo"), 462, 0,
          << [date |-> Date11, report |-> <<"kkori">>] >>)
HorseGained ==
    Horse(HWeightOnly, Sessions(6, "bo"), 470, 0,
          << [date |-> Date11, report |-> <<"kkori">>] >>)
\* Nothing on record at all.
HorseUnknown == Horse(<<>>, <<>>, 0, 0, <<>>)

HorseNames == <<"h1", "h2", "h3", "h4", "h5", "h6", "h7", "h8">>

-----------------------------------------------------------------------------
(* Specification SpecPure: analyze_horse called twice on one analyzer with *)
(* the same arguments (as Backtester.run does, backtester.py lines 223 and *)
(* 252).  The analyzer object and the argument lists are state that a call *)
(* could write to; ret collects, per call, the returned record and the     *)
(* operands the call read.                                                 *)

PureWeights == {0, 462, 470, 480}
PureWeightDiffs == {-10, 0, 4}

PureHorses ==
    {HorseFit, HorseHeavy, HorseUnlucky, HorseCloser, HorseNoLate,
     HorseSteady, HorseGained, HorseUnknown}

PureArgs ==
    { [horse_name |-> "h1", race_history |-> h.hist,
       training_records |-> h.training, current_weight |-> w,
       weight_diff |-> wd, steward_reports |-> h.reports] :
          h \in PureHorses, w \in PureWeights, wd \in PureWeightDiffs }

\* Variant of InputsAfterCall in which a call uses up the steward reports.
InputsAfterCall_consumed(inputs) == [inputs EXCEPT !.steward_reports = <<>>]

\* Lines 469-514: the argument lists after a call.  analyze_horse and the
\* five methods it calls only read race_history, training_records and
\* steward_reports; the lists they append to (rc_times, details,
\* matched_keywords) are their own.
InputsAfterCall(inputs) == inputs

\* Lines 469-514: the analyzer after a call; no attribute of self is assigned
\* outside __init__.
AnalyzerAfterCall(self) == self

InitPure ==
    /\ analyzer = DefaultAnalyzer
    /\ args \in PureArgs
    /\ ret = [calls |-> <<>>, operands |-> <<>>]
    /\ pc = "call"
    /\ NoRace

\* One call.  The float operations of a call are deterministic: a call that
\* reads the operands an earlier call read resolves every rounding tie as
\* that call did.
AnalyzeHorse ==
    /\ pc = "call"
    /\ Len(ret.calls) < 2
    /\ \E res \in analyze_horse(analyzer, args.horse_name, args.race_history,
                                 args.training_records, args.current_weight,
                                 args.weight_diff, args.steward_reports) :
          /\ \A k \in 1..Len(ret.calls) :
                 ret.operands[k] = <<analyzer, args>> => res = ret.calls[k]
          /\ ret' = [calls |-> Append(ret.calls, res),
                     operands |-> Append(ret.operands, <<analyzer, args>>)]
    /\ analyzer' = AnalyzerAfterCall(analyzer)
    /\ args' = InputsAfterCall(args)
    /\ UNCHANGED <<pc, card, sim_results, ranking, picks, btVars>>

NextPure == AnalyzeHorse

SpecPure == InitPure /\ [][NextPure]_vars

-----------------------------------------------------------------------------
(* Specification SpecLive: the race analysis of the dashboard              *)
(* (app.py, lines 325-362): every row of the race card is analysed, the    *)
(* analyses are ranked, and the trio picks are generated from the ranking. *)

MaxField == 4

LiveHorses ==
    {HorseHeavy, HorseUnlucky, HorseCloser, HorseSteady, HorseGained,
     HorseUnknown}

\* The race card: row i carries horse number hrNo and the horse's data.
\* Horse numbers count down so that they differ from the ranks.
LiveCards ==
    UNION { { [i \in 1..n |-> [hrNo |-> n + 1 - i, hrName |-> HorseNames[i],
                               horse |-> f[i]]] : f \in [1..n -> LiveHorses] } :
            n \in 0..MaxField }

InitLive ==
    /\ analyzer = DefaultAnalyzer
    /\ args = NoRet
    /\ ret = NoRet
    /\ card \in LiveCards
    /\ sim_results = <<>>
    /\ ranking = <<>>
    /\ picks = NoRet
    /\ pc = "analyze"
    /\ NoBacktest

\* app.py lines 326-353: one iteration of the loop over the race card.  The
\* call passes no weight_diff, so the default 0 applies.
AnalyzeEntry ==
    /\ pc = "analyze"
    /\ Len(sim_results) < Len(card)
    /\ LET row == card[Len(sim_results) + 1]
       IN  \E res \in analyze_horse(analyzer, row.hrName, row.horse.hist,
                                    row.horse.training, row.horse.weight, 0,
                                    row.horse.reports) :
               sim_results' = Append(sim_results, [res EXCEPT !.hrNo = row.hrNo])
    /\ UNCHANGED <<analyzer, args, ret, card, ranking, picks, pc, btVars>>

\* app.py line 355.
RankHorses ==
    /\ pc = "analyze"
    /\ Len(sim_results) = Len(card)
    /\ ranking' = rank_horses(analyzer, sim_results)
    /\ sim_results' = RankedInPlace(analyzer, sim_results)
    /\ pc' = "ranked"
    /\ UNCHANGED <<analyzer, args, ret, card, picks, btVars>>

\* app.py lines 359-362: the picks are generated unless the ranking is empty.
GenerateTrioPicks ==
    /\ pc = "ranked"
    /\ ranking # <<>>
    /\ picks' = generate_trio_picks(analyzer, ranking, card)
    /\ pc' = "done"
    /\ UNCHANGED <<analyzer, args, ret, card, sim_results, ranking, btVars>>

NextLive == AnalyzeEntry \/ RankHorses \/ GenerateTrioPicks

SpecLive == InitLive /\ [][NextLive]_vars

-----------------------------------------------------------------------------
(* Backtester: the data of a race day and the conversions applied to it.   *)
(* A DataFrame is Frame(rows) with the sequence of its rows; a dict key    *)
(* that is missing or None, and a file that does not exist, is the value   *)
(* None.                                                                   *)

Frame(rows) == [present |-> TRUE, rows |-> rows]
None == [present |-> FALSE, rows |-> <<>>]

\* The wgHr cell of an entry row: blank, or the text "val(diff)" / "val"
\* (diff = 0 when the text has no parenthesis).
WgHr(weight, wdiff) ==
    IF weight = 0 THEN [t |-> "blank", val |-> 0, diff |-> 0]
    ELSE [t |-> "kg", val |-> weight, diff |-> wdiff]

\* Backtester._parse_weight: the pair (weight, diff); (0, 0) for a blank or
\* unparsable cell.
_parse_weight(weight_str) ==
    IF weight_str.t = "kg" THEN <<weight_str.val, weight_str.diff>>
    ELSE <<0, 0>>

\* Backtester._build_history: at most five past races from the columns of
\* the row; a weight cell that holds no number becomes 0.  The rows of the
\* model record every column of the races they hold.
_build_history(row) ==
    [i \in 1..Min(5, Len(row.horse.hist)) |->
        [row.horse.hist[i] EXCEPT
            !.weight = Num(IF @.t = "num" THEN @.v ELSE 0)]]

\* Backtester._build_training: the training rows of the horse, as records
\* with a type; nothing when the day has no training data.
_build_training(horse_name, training_df) ==
    IF training_df = None \/ training_df.rows = <<>> THEN <<>>
    ELSE LET matched == SelectSeq(training_df.rows,
                                  LAMBDA tr : tr.hrName = horse_name)
         IN  [i \in 1..Len(matched) |->
                 [type |-> matched[i].type, trGbn |-> ""]]

\* Lines 213-221: the steward report of the last run, dated by rcDate_1,
\* when the cell is truthy.
StewardReports(row) ==
    IF row.steward_report_1 # <<>>
    THEN << [date |-> IF row.horse.hist # <<>>
                      THEN row.horse.hist[1].rcDate ELSE <<>>,
             report |-> row.steward_report_1] >>
    ELSE <<>>

\* Backtester._group_by_race: the rows of each race number, the races in
\* ascending order, as pairs [race_no, group_df].
_group_by_race(df) ==
    LET nos == SortedAsc({df[i].rcNo : i \in 1..Len(df)})
    IN  [k \in 1..Len(nos) |->
            [race_no |-> nos[k],
             group_df |-> SelectSeq(df, LAMBDA r : r.rcNo = nos[k])]]

\* dict[name] = value on an insertion-ordered dict kept as a sequence of
\* [name, value...] records: a known name is updated in place.
DictPut(d, e) ==
    IF \E i \in 1..Len(d) : d[i].name = e.name
    THEN [i \in 1..Len(d) |-> IF d[i].name = e.name THEN e ELSE d[i]]
    ELSE Append(d, e)

RECURSIVE RanksOf(_)
RanksOf(rows) ==
    IF rows = <<>> THEN <<>>
    ELSE LET r == rows[Len(rows)]
         IN  DictPut(RanksOf(SubSeq(rows, 1, Len(rows) - 1)),
                     [name |-> r.hrName, rank |-> r.ord.v,
                      winOdds |-> r.winOdds, plcOdds |-> r.plcOdds,
                      qui_div |-> r.qui_div, trio_div |-> r.trio_div])

\* Backtester._get_actual_ranks: the finishing data of the race by horse
\* name; a row whose finishing position is no integer is left out.
_get_actual_ranks(race_no, results_df) ==
    RanksOf(SelectSeq(results_df,
                      LAMBDA r : r.rcNo = race_no /\ r.ord.t = "num"))

\* Backtester._generate_dates: the days of the range that fall on a Friday,
\* Saturday or Sunday.  Days are numbered along the calendar and day 1 is a
\* Thursday (weekday() = 3).
Weekday(day) == (day + 2) % 7

_generate_dates(start, end) ==
    SelectSeq([k \in 1..Max(end - start + 1, 0) |-> start + k - 1],
              LAMBDA day : Weekday(day) >= 4)

\* pandas.read_csv applied to the entries file to_csv wrote: a blank
\* steward report cell comes back as NaN, which is truthy and whose str() is
\* "nan".
read_csv(file) ==
    IF file = None THEN None
    ELSE Frame([i \in 1..Len(file.rows) |->
                  IF file.rows[i].steward_report_1 = <<>>
                  THEN [file.rows[i] EXCEPT !.steward_report_1 = <<"nan">>]
                  ELSE file.rows[i]])

NoFiles == [entries |-> None, results |-> None, training |-> None]

\* KRAScraper.load_cache: the frames of the files that exist; an empty dict
\* when there is none.
load_cache(files) ==
    [entries |-> read_csv(files.entries), results |-> files.results,
     training |-> files.training]

\* Variant of _save_cache that writes every frame, the empty ones too.
_save_cache_all(files, frames) ==
    [entries |-> frames.entries, results |-> frames.results,
     training |-> frames.training]

\* KRAScraper._save_cache: every non-empty frame of the data is written,
\* the other files are left as they are.
_save_cache(files, frames) ==
    [entries |-> IF frames.entries.rows # <<>> THEN frames.entries
                 ELSE files.entries,
     results |-> IF frames.results.rows # <<>> THEN frames.results
                 ELSE files.results,
     training |-> IF frames.training.rows # <<>> THEN frames.training
                  ELSE files.training]

-----------------------------------------------------------------------------
(* Backtester.run: the simulation of one race *)

\* Lines 230-250: the verdict of the AI analyst on the first report; it is
\* asked only when the horse has a report, and its answer is not determined
\* by the program.
AiVerdicts(st_reports) == IF st_reports # <<>> THEN BOOLEAN ELSE {FALSE}

\* Lines 258-261: the AI verdict merged into the analysis.
MergeAi(analysis, ai_bad_luck) ==
    IF ai_bad_luck
    THEN [analysis EXCEPT !.dark_horse = TRUE,
                          !.dark_horse_reason =
                              IF @ = "interference + strong finish"
                              THEN "interference + strong finish | ai"
                              ELSE IF @ = "repeated interference"
                              THEN "repeated interference | ai"
                              ELSE " | ai",
                          !.interference_score = @ + 20]
    ELSE analysis

\* Lines 203-271: the analyses one entry row can lead to.
SimulateHorse(self, row, training) ==
    LET horse_name == row.hrName
        history == _build_history(row)
        train_recs == _build_training(horse_name, training)
        parsed == _parse_weight(row.wgHr)
        st_reports == StewardReports(row)
    IN  UNION { { MergeAi(analysis, ai_bad_luck) :
                    analysis \in analyze_horse(self, horse_name, history,
                                               train_recs, parsed[1], parsed[2],
                                               st_reports) } :
                ai_bad_luck \in AiVerdicts(st_reports) }

\* Lines 201-271: the lists sim_results the rows of a race can lead to.
RECURSIVE SimulateGroup(_, _, _)
SimulateGroup(self, group_df, training) ==
    IF group_df = <<>> THEN {<<>>}
    ELSE { Append(sims, analysis) :
             sims \in SimulateGroup(self, SubSeq(group_df, 1, Len(group_df) - 1),
                                    training),
             analysis \in SimulateHorse(self, group_df[Len(group_df)], training) }

Take(xs, n) == SubSeq(xs, 1, Min(n, Len(xs)))

InList(x, xs) == \E i \in 1..Len(xs) : xs[i] = x

\* Line 288: h.get("is_dark_horse", False); the key the analysis carries is
\* dark_horse.
GetIsDarkHorse(h) ==
    IF "is_dark_horse" \in DOMAIN h THEN h["is_dark_horse"] ELSE FALSE

\* Lines 280-303: axis, challengers and dark horses of a ranking.
SelectHorses(ranked) ==
    LET axis_horse == ranked[1]
        others == Tail(ranked)
        dark_candidates == SelectSeq(others, GetIsDarkHorse)
        dark_first == Take(dark_candidates, 3)
        remaining == SelectSeq(others, LAMBDA h : ~InList(h, dark_first))
        challengers == Take(remaining, 2)
        extras == SelectSeq(remaining, LAMBDA h : ~InList(h, challengers))
        dark_horses == IF Len(dark_first) < 3
                       THEN dark_first \o Take(extras, 3 - Len(dark_first))
                       ELSE dark_first
    IN  [axis_horse |-> axis_horse,
         is_veto |-> axis_horse.veto,
         challengers |-> challengers,
         dark_horses |-> dark_horses,
         selected_horses |-> <<axis_horse>> \o challengers \o dark_horses]

\* dict.get(name, default) on the finishing data.
RankData(actual_ranks, name) ==
    IF \E i \in 1..Len(actual_ranks) : actual_ranks[i].name = name
    THEN actual_ranks[CHOOSE i \in 1..Len(actual_ranks) :
                          actual_ranks[i].name = name]
    ELSE [name |-> name, rank |-> 99, winOdds |-> 0, plcOdds |-> 0,
          qui_div |-> 0, trio_div |-> 0]

\* The name None stands for: no horse holds the rank.
NoName == ""

\* next((n for n, d in actual_ranks.items() if d["rank"] == k), None)
NameOfRank(actual_ranks, k) ==
    LET hits == {i \in 1..Len(actual_ranks) : actual_ranks[i].rank = k}
    IN  IF hits = {} THEN NoName
        ELSE actual_ranks[CHOOSE i \in hits : \A j \in hits : i <= j].name

\* Variant of IsQuiHit for a box bet: the first two finishers are both
\* among the picks, whichever of the picks they are.
IsQuiHit_box(horse_name, r1_name, r2_name, my_picks) ==
    InList(r1_name, my_picks) /\ InList(r2_name, my_picks)

\* Lines 338-341: the axis is first or second and the other of the first
\* two is among the picks.
IsQuiHit(horse_name, r1_name, r2_name, my_picks) ==
    /\ horse_name \in {r1_name, r2_name}
    /\ InList(IF horse_name = r1_name THEN r2_name ELSE r1_name, my_picks)

\* Lines 311-377: the outcome row of a race.
OutcomeRow(date, race_no, picked, actual_ranks) ==
    LET axis_horse == picked.axis_horse
        horse_name == axis_horse.horse_name
        actual_data == RankData(actual_ranks, horse_name)
        actual_rank == actual_data.rank
        is_win_hit == actual_rank = 1
        is_plc_hit == actual_rank <= 3
        r1_name == NameOfRank(actual_ranks, 1)
        r2_name == NameOfRank(actual_ranks, 2)
        r3_name == NameOfRank(actual_ranks, 3)
        my_picks == [i \in 1..Len(picked.selected_horses) |->
                        picked.selected_horses[i].horse_name]
        is_qui_hit == IsQuiHit(horse_name, r1_name, r2_name, my_picks)
        rank_names == <<r1_name, r2_name, r3_name>>
        needed_partners == SelectSeq(rank_names, LAMBDA n : n # horse_name)
        partners_in_picks == SelectSeq(needed_partners,
                                       LAMBDA n : InList(n, my_picks))
        is_trio_hit == /\ InList(horse_name, rank_names)
                       /\ Len(partners_in_picks) = 2
    IN  [date |-> date,
         race_no |-> race_no,
         horse |-> horse_name,
         pred_score |-> axis_horse.total_score,
         actual_rank |-> actual_rank,
         is_hit |-> is_plc_hit,
         is_win_hit |-> is_win_hit,
         win_return |-> IF is_win_hit THEN actual_data.winOdds ELSE 0,
         is_qui_hit |-> is_qui_hit,
         qui_return |-> IF is_qui_hit THEN actual_data.qui_div ELSE 0,
         is_trio_hit |-> is_trio_hit,
         trio_return |-> IF is_trio_hit THEN actual_data.trio_div ELSE 0,
         is_veto |-> picked.is_veto]

\* Lines 380-383.
CountWBonus(stats, axis_horse, is_plc_hit) ==
    IF axis_horse.position.w_bonus_count > 0
    THEN [total |-> stats.total + 1,
          hit |-> stats.hit + (IF is_plc_hit THEN 1 ELSE 0)]
    ELSE stats

\* Lines 386-393: every vetoed horse of the race is counted, and counted as
\* a confirmed veto when it finished outside the first three.
CountVetoes(stats, sims, actual_ranks) ==
    LET vetoed == SelectSeq(sims, LAMBDA h : h.veto)
        failed == SelectSeq(vetoed, LAMBDA h :
                     RankData(actual_ranks, h.horse_name).rank > 3)
    IN  [total |-> stats.total + Len(vetoed),
         failed |-> stats.failed + Len(failed)]

\* Lines 396-440: the returned metrics; a rate is kept as the fraction
\* 100 * num / den.
EmptyDict == [empty |-> TRUE]

Rate(num, den) == IF den > 0 THEN [num |-> 100 * num, den |-> den]
                  ELSE [num |-> 0, den |-> 1]

\* Variant of Metrics without the early return for an empty result list.
Metrics_unguarded(rows, vetoes, w_bonus) ==
    [hit_rate |-> Rate(Len(SelectSeq(rows, LAMBDA r : r.is_hit)), Len(rows)),
     veto_accuracy |-> Rate(vetoes.failed, vetoes.total),
     w_bonus_accuracy |-> Rate(w_bonus.hit, w_bonus.total),
     total_races |-> Len(rows)]

\* Lines 396-440: the empty dict when no outcome row was recorded, the
\* metrics otherwise.
Metrics(rows, vetoes, w_bonus) ==
    IF rows = <<>> THEN EmptyDict
    ELSE [hit_rate |-> Rate(Len(SelectSeq(rows, LAMBDA r : r.is_hit)),
                            Len(rows)),
          veto_accuracy |-> Rate(vetoes.failed, vetoes.total),
          w_bonus_accuracy |-> Rate(w_bonus.hit, w_bonus.total),
          total_races |-> Len(rows)]

-----------------------------------------------------------------------------
(* Specification SpecBacktest: Backtester.run over a range of days.        *)
(*                                                                         *)
(* The calendar of the model runs from Thursday 5 February 2026 (day 1) to *)
(* Sunday 15 February 2026 (day 11).  The same card is entered on every    *)
(* race day; what the cache holds and what the collection returns differs  *)
(* from day to day.                                                        *)

MaxRunners == 3
CalendarDays == 11
MaxSpan == 3

\* Line 154: the date "20260215", whose cached entries are deleted.
DebugDate == 11

\* The same horse as HorseFit, entered 10 kg lighter than last time.
HorseDropped ==
    Horse(HFast, Sessions(14, "bo") \o Sessions(1, "gang"), 470, -10, <<>>)

BtHorses == {HorseFit, HorseDropped, HorseUnlucky}

BtCards ==
    UNION { { [i \in 1..n |-> [hrNo |-> i, hrName |-> HorseNames[i],
                               horse |-> f[i]]] : f \in [1..n -> BtHorses] } :
            n \in 1..MaxRunners }

Reverse(xs) == [i \in 1..Len(xs) |-> xs[Len(xs) + 1 - i]]

\* The entry rows of a race: one row per runner of the card.
EntryRows(runners, race_no) ==
    [i \in 1..Len(runners) |->
        [rcNo |-> race_no,
         hrNo |-> runners[i].hrNo,
         hrName |-> runners[i].hrName,
         wgHr |-> WgHr(runners[i].horse.weight, runners[i].horse.wdiff),
         horse |-> runners[i].horse,
         steward_report_1 |-> IF runners[i].horse.reports # <<>>
                              THEN runners[i].horse.reports[1].report
                              ELSE <<>>]]

\* The result rows of a race in which the runners finish in the order
\* given; odds and dividends in tenths.
ResultRows(finish, race_no) ==
    [i \in 1..Len(finish) |->
        [rcNo |-> race_no, hrName |-> finish[i].hrName, ord |-> Num(i),
         winOdds |-> 25, plcOdds |-> 12, qui_div |-> 48, trio_div |-> 150]]

\* The training rows of the week: the sessions of every runner.
RECURSIVE TrainingRows(_)
TrainingRows(runners) ==
    IF runners = <<>> THEN <<>>
    ELSE [i \in 1..Len(Head(runners).horse.training) |->
             [hrName |-> Head(runners).hrName,
              type |-> Head(runners).horse.training[i].type]]
         \o TrainingRows(Tail(runners))

\* One race, finished in card order.
OneRace(runners) ==
    [entries |-> Frame(EntryRows(runners, 1)),
     results |-> Frame(ResultRows(runners, 1)),
     training |-> Frame(TrainingRows(runners))]

\* Two races of the same runners, the second entered in reverse order; only
\* the first has results, finished in reverse card order.
TwoRaces(runners) ==
    [entries |-> Frame(EntryRows(runners, 1)
                       \o EntryRows(Reverse(runners), 2)),
     results |-> Frame(ResultRows(Reverse(runners), 1)),
     training |-> Frame(TrainingRows(runners))]

\* Nothing published for the day.
NoRaces ==
    [entries |-> Frame(<<>>), results |-> Frame(<<>>),
     training |-> Frame(<<>>)]

Returns(frames) == [raises |-> FALSE, frames |-> frames]
Raises == [raises |-> TRUE, frames |-> NoFiles]

\* What KRAScraper.collect_all does for a day: it returns the frames
\* collected, or raises.
Remote(day, runners) ==
    CASE day = 4 -> Returns(TwoRaces(runners))
      [] day = 10 -> Returns(NoRaces)
      [] day = DebugDate -> Returns(OneRace(runners))
      [] OTHER -> Raises

\* The cache files at the start of the run: day 2 was collected in full,
\* day 9 before its results were published, the day of DebugDate in full.
InitialFiles(day, runners) ==
    CASE day = 2 -> _save_cache(NoFiles, OneRace(runners))
      [] day = 9 -> [_save_cache(NoFiles, OneRace(runners))
                        EXCEPT !.results = None]
      [] day = DebugDate -> _save_cache(NoFiles, OneRace(runners))
      [] OTHER -> NoFiles

\* The tuner's state while run is called on its own; the calls of
\* collect_all are recorded with the number of the run that made them.
NoTuner == [none |-> TRUE]
RunNo == IF tuner = NoTuner THEN 1 ELSE tuner.i

BtArgs ==
    {a \in [start_date : 1..CalendarDays, end_date : 0..CalendarDays] :
        /\ a.end_date >= a.start_date - 1
        /\ a.end_date - a.start_date + 1 <= MaxSpan}

InitBacktest ==
    /\ analyzer = DefaultAnalyzer
    /\ args \in BtArgs
    /\ card \in BtCards
    /\ cache = [day \in 1..CalendarDays |-> InitialFiles(day, card)]
    /\ ret = NoRet
    /\ pc = "dates"
    /\ date_i = 1
    /\ data = NoFiles
    /\ race_groups = <<>>
    /\ sim_results = <<>>
    /\ ranking = <<>>
    /\ picks = NoRet
    /\ results = <<>>
    /\ veto_stats = [total |-> 0, failed |-> 0]
    /\ w_bonus_stats = [total |-> 0, hit |-> 0]
    /\ collected = <<>>
    /\ tuner = NoTuner

\* Line 143.
Dates == _generate_dates(args.start_date, args.end_date)

\* Variant of NothingToSimulate that also gives up a date without training
\* data.
NothingToSimulate_needs_training(day_data) ==
    \/ day_data.entries = None \/ day_data.entries.rows = <<>>
    \/ day_data.results = None \/ day_data.results.rows = <<>>
    \/ day_data.training = None \/ day_data.training.rows = <<>>

\* Lines 188: the date has nothing to simulate.
NothingToSimulate(day_data) ==
    \/ day_data.entries = None \/ day_data.entries.rows = <<>>
    \/ day_data.results = None \/ day_data.results.rows = <<>>

\* Lines 151-193: the head of the loop over the dates: the data of the date
\* is loaded from the cache or collected, and the date is skipped when the
\* collection raises or entries or results are missing.
LoadDate ==
    /\ pc = "dates"
    /\ date_i <= Len(Dates)
    /\ LET date == Dates[date_i]
           files == IF date = DebugDate
                    THEN [cache[date] EXCEPT !.entries = None]
                    ELSE cache[date]
           cached == load_cache(files)
           collect == cached.entries = None
           remote == Remote(date, card)
       IN  /\ collected' = IF collect
                           THEN Append(collected, [run |-> RunNo, date |-> date])
                           ELSE collected
           /\ IF collect /\ remote.raises
              THEN /\ cache' = [cache EXCEPT ![date] = files]
                   /\ date_i' = date_i + 1
                   /\ UNCHANGED <<data, race_groups, pc>>
              ELSE LET day_data == IF collect THEN remote.frames ELSE cached
                       saved == IF collect
                                THEN _save_cache(files, remote.frames)
                                ELSE files
                   IN  /\ cache' = [cache EXCEPT ![date] = saved]
                       /\ data' = day_data
                       /\ IF NothingToSimulate(day_data)
                          THEN /\ date_i' = date_i + 1
                               /\ UNCHANGED <<race_groups, pc>>
                          ELSE /\ race_groups' =
                                      _group_by_race(day_data.entries.rows)
                               /\ pc' = "races"
                               /\ UNCHANGED date_i
    /\ UNCHANGED <<analyzer, args, ret, card, sim_results, ranking, picks,
                   results, veto_stats, w_bonus_stats, tuner>>

\* Lines 195-393: one iteration of the loop over the races of the date.  A
\* race without finishing data is passed over; otherwise its runners are
\* analysed and ranked, the picks are made and the outcome row is recorded.
SimulateRace ==
    /\ pc = "races"
    /\ race_groups # <<>>
    /\ LET race_no == Head(race_groups).race_no
           group_df == Head(race_groups).group_df
           actual_ranks == _get_actual_ranks(race_no, data.results.rows)
       IN  IF actual_ranks = <<>>
           THEN UNCHANGED <<sim_results, ranking, picks, results, veto_stats,
                            w_bonus_stats>>
           ELSE \E sims \in SimulateGroup(analyzer, group_df, data.training) :
                  LET ranked == rank_horses(analyzer, sims)
                      picked == SelectHorses(ranked)
                      row == OutcomeRow(Dates[date_i], race_no, picked,
                                        actual_ranks)
                  IN  /\ sim_results' = RankedInPlace(analyzer, sims)
                      /\ ranking' = ranked
                      /\ picks' = picked
                      /\ results' = Append(results, row)
                      /\ w_bonus_stats' = CountWBonus(w_bonus_stats,
                                              picked.axis_horse, row.is_hit)
                      /\ veto_stats' = CountVetoes(veto_stats, sims,
                                                   actual_ranks)
    /\ race_groups' = Tail(race_groups)
    /\ IF Tail(race_groups) = <<>>
       THEN pc' = "dates" /\ date_i' = date_i + 1
       ELSE UNCHANGED <<pc, date_i>>
    /\ UNCHANGED <<analyzer, args, ret, card, cache, data, collected, tuner>>

\* Lines 396-440: after the last date the metrics are returned.
Report ==
    /\ pc = "dates"
    /\ date_i > Len(Dates)
    /\ ret' = Metrics(results, veto_stats, w_bonus_stats)
    /\ pc' = "done"
    /\ UNCHANGED <<analyzer, args, card, sim_results, ranking, picks, btVars>>

NextBacktest == LoadDate \/ SimulateRace \/ Report

SpecBacktest == InitBacktest /\ [][NextBacktest]_vars

-----------------------------------------------------------------------------
(* Specification SpecTune: Backtester.tune_parameters, the grid search     *)
(* that calls run once per configuration over the days up to today.        *)

\* The days of history the tuner looks back over (30 in the code).
TuneSpan == 3

\* Lines 447-451.
w_bonuses == <<20, 30, 40>>
pos_weights_opts ==
    << << [key |-> <<"4", "M">>, pts |-> 50],
          [key |-> <<"3", "M">>, pts |-> 40],
          [key |-> <<"2", "M">>, pts |-> 30] >>,
       << [key |-> <<"4", "M">>, pts |-> 60],
          [key |-> <<"3", "M">>, pts |-> 40],
          [key |-> <<"2", "M">>, pts |-> 20] >> >>

\* {**base, **over}: the keys of base keep their place and take the value
\* of over where over has the key (over has no key that base lacks).
MergeDicts(base, over) ==
    [i \in 1..Len(base) |->
        IF \E j \in 1..Len(over) : over[j].key = base[i].key
        THEN [key |-> base[i].key,
              pts |-> over[CHOOSE j \in 1..Len(over) :
                               over[j].key = base[i].key].pts]
        ELSE base[i]]

\* Lines 462-466: the params of the k-th iteration of
\* itertools.product(w_bonuses, pos_weights_opts), the second list varying
\* fastest.
GridParams(k) ==
    LET n == Len(pos_weights_opts)
    IN  [w_bonus |-> w_bonuses[((k - 1) \div n) + 1],
         position_weights |->
             MergeDicts(POSITION_WEIGHTS, pos_weights_opts[((k - 1) % n) + 1])]

GridSize == Len(w_bonuses) * Len(pos_weights_opts)

\* Line 149: QuantitativeAnalyzer(**params).
AnalyzerWith(params) ==
    [DefaultAnalyzer EXCEPT !.w_bonus = params.w_bonus,
                            !.position_weights = params.position_weights]

\* A hit rate as a fraction; res.get("hit_rate", 0) of the empty result.
ZeroScore == [num |-> 0, den |-> 1]
ScoreOf(res) == IF res = EmptyDict THEN ZeroScore ELSE res.hit_rate

\* Variant of Improves that also takes a configuration with an equal score.
Improves_or_equals(score, best_score) ==
    score.num * best_score.den >= best_score.num * score.den

\* Line 473: score > best_score.
Improves(score, best_score) ==
    score.num * best_score.den > best_score.num * score.den

\* Horses told apart by their last run only: placed after racing wide,
\* placed after leading at the second corner, and unplaced.
HorseWide ==
    Horse(<< Race(0, 0, 1, <<"W">>, <<>>, Num(468), Date11) >>, <<>>, 468, 0, <<>>)
HorseSecondCorner ==
    Horse(<< Race(0, 0, 2, <<>>, <<"2", "M">>, Num(468), Date11) >>, <<>>, 468, 0, <<>>)
HorseUnplaced ==
    Horse(<< Race(0, 0, 7, <<"M">>, <<"4", "M">>, Num(468), Date11) >>, <<>>, 468, 0, <<>>)

TuneHorses == {HorseWide, HorseSecondCorner, HorseUnplaced}

\* Race cards of four runners: one that raced wide, at most one that led at
\* the second corner, the others unplaced.
TuneCards ==
    { [i \in 1..4 |-> [hrNo |-> i, hrName |-> HorseNames[i], horse |-> f[i]]] :
         f \in { g \in [1..4 -> TuneHorses] :
                   /\ Cardinality({i \in 1..4 : g[i] = HorseWide}) = 1
                   /\ Cardinality({i \in 1..4 : g[i] = HorseSecondCorner}) <= 1 } }

\* Lines 457-460: the period ends today and starts TuneSpan days earlier.
TuneArgs ==
    { [start_date |-> today - TuneSpan, end_date |-> today] :
         today \in (TuneSpan + 1)..CalendarDays }

InitTune ==
    /\ analyzer = DefaultAnalyzer
    /\ args \in TuneArgs
    /\ card \in TuneCards
    /\ cache = [day \in 1..CalendarDays |-> InitialFiles(day, card)]
    /\ ret = NoRet
    /\ pc = "tune"
    /\ date_i = 1
    /\ data = NoFiles
    /\ race_groups = <<>>
    /\ sim_results = <<>>
    /\ ranking = <<>>
    /\ picks = NoRet
    /\ results = <<>>
    /\ veto_stats = [total |-> 0, failed |-> 0]
    /\ w_bonus_stats = [total |-> 0, hit |-> 0]
    /\ collected = <<>>
    /\ tuner = [i |-> 1, best_score |-> ZeroScore, best_params |-> EmptyDict,
                scores |-> <<>>]

\* Lines 462-468 and run's lines 143-149: the next configuration is formed
\* and run is called with it; run starts with empty results and counters
\* and an analyzer built from the params.
TuneRun ==
    /\ pc = "tune"
    /\ tuner.i <= GridSize
    /\ analyzer' = AnalyzerWith(GridParams(tuner.i))
    /\ pc' = "dates"
    /\ date_i' = 1
    /\ data' = NoFiles
    /\ race_groups' = <<>>
    /\ sim_results' = <<>>
    /\ ranking' = <<>>
    /\ picks' = NoRet
    /\ results' = <<>>
    /\ veto_stats' = [total |-> 0, failed |-> 0]
    /\ w_bonus_stats' = [total |-> 0, hit |-> 0]
    /\ ret' = NoRet
    /\ UNCHANGED <<args, card, cache, collected, tuner>>

\* Lines 469-475: the score of the run that has returned is compared with
\* the best one so far.
TuneScore ==
    /\ pc = "done"
    /\ tuner # NoTuner
    /\ LET score == ScoreOf(ret)
           better == Improves(score, tuner.best_score)
       IN  tuner' = [i |-> tuner.i + 1,
                     best_score |-> IF better THEN score ELSE tuner.best_score,
                     best_params |-> IF better THEN GridParams(tuner.i)
                                     ELSE tuner.best_params,
                     scores |-> Append(tuner.scores, score)]
    /\ pc' = "tune"
    /\ UNCHANGED <<analyzer, args, ret, card, sim_results, ranking, picks,
                   cache, data, date_i, race_groups, results, veto_stats,
                   w_bonus_stats, collected>>

\* Line 479: the best score is printed with the format .1f, one decimal of
\* a percentage, kept here in tenths of a percent.
FormatScore(score) == RoundOutcomes(10 * score.num, score.den)

\* Lines 477-479: what tune_parameters reports at its end, the best
\* configuration and the best score.
TuneReports ==
    { [best_params |-> tuner.best_params, best_score |-> text] :
         text \in FormatScore(tuner.best_score) }

\* Lines 477-479: the grid is exhausted and the best configuration is
\* reported.
TuneReport ==
    /\ pc = "tune"
    /\ tuner.i > GridSize
    /\ ret' \in TuneReports
    /\ pc' = "tuned"
    /\ UNCHANGED <<analyzer, args, card, sim_results, ranking, picks, btVars>>

NextTune ==
    TuneRun \/ LoadDate \/ SimulateRace \/ Report \/ TuneScore \/ TuneReport

SpecTune == InitTune /\ [][NextTune]_vars

-----------------------------------------------------------------------------
(* Specification SpecRace: Backtester.run over one cached race day with a  *)
(* field large enough for a runner to be left out of the picks.  The day   *)
(* holds two races of the same runners; the results file has the first     *)
(* finishers of the second race and nothing of the first.                  *)

FieldSize == 7
\* The first Friday of the calendar.
RaceDay == CHOOSE day \in 1..CalendarDays : Weekday(day) = 4

\* A finisher that is not on the card (entered after the card was cached).
Outsider == "x"

FinishNames == {"h1", "h2", "h3", HorseNames[FieldSize], Outsider}

\* A card of n runners, fit horses throughout except for the runner p.
RaceCard(n, p, special) ==
    [i \in 1..n |-> [hrNo |-> i, hrName |-> HorseNames[i],
                     horse |-> IF i = p THEN special ELSE HorseFit]]

\* The cards: a full field whose last runner is a horse with steward
\* reports, and fields of three whose first or last runner is that horse or
\* a horse that lost 10 kg.
RaceCards ==
    { RaceCard(FieldSize, FieldSize, HorseUnlucky) }
    \cup { RaceCard(3, p, special) :
              p \in {1, 3}, special \in {HorseUnlucky, HorseDropped} }

\* The first finishers recorded: up to three names in finishing order, and
\* the place (0 for none) whose finishing position is no number in the file.
Finishes ==
    { f \in [names : UNION {[1..k -> FinishNames] : k \in 1..3}, void : 0..1] :
        /\ \A i, j \in 1..Len(f.names) : i # j => f.names[i] # f.names[j]
        /\ f.void = 1 => Len(f.names) <= 2 }

FinishRows(finish, race_no) ==
    [i \in 1..Len(finish.names) |->
        [rcNo |-> race_no, hrName |-> finish.names[i],
         ord |-> IF i = finish.void THEN Str ELSE Num(i),
         winOdds |-> 25, plcOdds |-> 12, qui_div |-> 48, trio_div |-> 150]]

RaceDayFrames(runners, finish) ==
    [entries |-> Frame(EntryRows(runners, 1) \o EntryRows(runners, 2)),
     results |-> Frame(FinishRows(finish, 2)),
     training |-> Frame(TrainingRows(runners))]

InitRace ==
    /\ analyzer = DefaultAnalyzer
    /\ args = [start_date |-> RaceDay, end_date |-> RaceDay]
    /\ card \in RaceCards
    /\ \E finish \in Finishes :
          cache = [day \in 1..CalendarDays |->
                      IF day = RaceDay
                      THEN _save_cache(NoFiles, RaceDayFrames(card, finish))
                      ELSE NoFiles]
    /\ ret = NoRet
    /\ pc = "dates"
    /\ date_i = 1
    /\ data = NoFiles
    /\ race_groups = <<>>
    /\ sim_results = <<>>
    /\ ranking = <<>>
    /\ picks = NoRet
    /\ results = <<>>
    /\ veto_stats = [total |-> 0, failed |-> 0]
    /\ w_bonus_stats = [total |-> 0, hit |-> 0]
    /\ collected = <<>>
    /\ tuner = NoTuner

NextRace == LoadDate \/ SimulateRace \/ Report

SpecRace == InitRace /\ [][NextRace]_vars

-----------------------------------------------------------------------------
(* Specification SpecField: the race analysis of the dashboard, as in      *)
(* SpecLive, on fields large enough for a horse to be ranked below the     *)
(* sixth place.                                                            *)

FieldHorses == {HorseFit, HorseCloser, HorseNoLate, HorseHeavy}

\* Fields of three and four runners of any kind, and full fields whose last
\* five runners are of any kind and whose other runners are fit horses.
\* Horse numbers count down so that they differ from the ranks.
FieldCards ==
    UNION { { [i \in 1..n |-> [hrNo |-> n + 1 - i, hrName |-> HorseNames[i],
                               horse |-> f[i]]] :
                f \in {g \in [1..n -> FieldHorses] :
                          \A i \in 1..(n - 5) : g[i] = HorseFit} } :
            n \in {3, 4, FieldSize} }

InitField ==
    /\ analyzer = DefaultAnalyzer
    /\ args = NoRet
    /\ ret = NoRet
    /\ card \in FieldCards
    /\ sim_results = <<>>
    /\ ranking = <<>>
    /\ picks = NoRet
    /\ pc = "analyze"
    /\ NoBacktest

NextField == AnalyzeEntry \/ RankHorses \/ GenerateTrioPicks

SpecField == InitField /\ [][NextField]_vars

-----------------------------------------------------------------------------
(* Claims about check_weight_veto (specification SpecWeight) *)

\* C3: whenever a non-zero weight delta is supplied it is authoritative, for
\* every current weight (0 = unknown included) and every history: veto is
\* true exactly when |delta| >= threshold, and the reported diff is the delta.
C3_DeltaAuthoritative ==
    (pc = "done" /\ args.weight_diff # 0) =>
        /\ ret.veto = (Abs(args.weight_diff) >= analyzer.weight_threshold)
        /\ ret.diff = args.weight_diff

\* No history entry records a positive body weight.
NoRecordedWeight(race_history) ==
    \A i \in 1..Len(race_history) :
        ~(race_history[i].weight.t = "num" /\ race_history[i].weight.v > 0)

\* C4: with a supplied delta of 0 and no comparison weight (the current
\* weight is unknown, or no history entry has a positive recorded weight)
\* the call returns veto = false, diff = 0 and a no-data note.
C4_NoDataNoVeto ==
    (/\ pc = "done"
     /\ args.weight_diff = 0
     /\ (args.current_weight = 0 \/ NoRecordedWeight(args.race_history))) =>
        /\ ret.veto = FALSE
        /\ ret.diff = 0
        /\ ret.note.kind \in {"no data", "no past weight data"}

\* A known current weight, delta 0, and a non-empty history whose entries
\* hold only missing, unparsable or zero weights.
C4_Witness ==
    /\ pc = "done"
    /\ args.weight_diff = 0
    /\ args.current_weight = 470
    /\ Len(args.race_history) = 3
    /\ args.race_history[1].weight = Str
    /\ args.race_history[2].weight = Absent
    /\ args.race_history[3].weight = Num(0)
    /\ ret.veto = FALSE

-----------------------------------------------------------------------------
(* Claims about calc_interference_bonus (specification SpecInterf) *)

HasPenalty(text) == \E i \in 1..Len(text) : text[i] \in penalty_keywords

HasInterference(text) ==
    \E i \in 1..Len(text), k \in 1..Len(interference_keywords) :
        text[i] = interference_keywords[k].kw

\* The reports of a list that carry no penalty keyword.
WithoutPenalty(reports) == SelectSeq(reports, LAMBDA r : ~HasPenalty(r.report))

\* C9: a report with a penalty keyword is excluded entirely, whatever
\* interference keywords it also holds: the result (score, count, details,
\* dark-horse flag) is the result of the same call with those reports
\* removed, and no detail entry stems from such a report.
C9_PenaltyExcluded ==
    pc = "done" =>
        LET clean == calc_interference_bonus(analyzer,
                         WithoutPenalty(args.steward_reports), args.race_history)
        IN  /\ ret.interference_score = clean.interference_score
            /\ ret.interference_count = clean.interference_count
            /\ ret.details = clean.details
            /\ ret.dark_horse = clean.dark_horse
            /\ ret.interference_count <= Len(WithoutPenalty(args.steward_reports))

\* Two reports, the first with penalty and interference keywords matched to a
\* fast run, the second a plain interference report: only the second counts.
C9_Witness ==
    /\ pc = "done"
    /\ Len(args.steward_reports) = 2
    /\ HasPenalty(args.steward_reports[1].report)
    /\ HasInterference(args.steward_reports[1].report)
    /\ ~HasPenalty(args.steward_reports[2].report)
    /\ HasInterference(args.steward_reports[2].report)
    /\ ret.interference_count = 1
    /\ ret.interference_score > 0

\* The weight of a keyword in the table (0 for a word that is no keyword).
KeywordWeight(kw) ==
    LET hits == {k \in 1..Len(interference_keywords) :
                     interference_keywords[k].kw = kw}
    IN  IF hits = {} THEN 0 ELSE interference_keywords[CHOOSE k \in hits : TRUE].weight

RECURSIVE WeightSum(_)
WeightSum(kws) ==
    IF kws = <<>> THEN 0 ELSE KeywordWeight(Head(kws)) + WeightSum(Tail(kws))

TierBonus(g1f) ==
    IF g1f <= 0 THEN 0
    ELSE IF g1f <= 125 THEN 8
    ELSE IF g1f <= 130 THEN 5
    ELSE IF g1f <= 135 THEN 3
    ELSE 0

RECURSIVE DetailSum(_)
DetailSum(details) ==
    IF details = <<>> THEN 0 ELSE Head(details).score + DetailSum(Tail(details))

\* C10: every per-report score is the matched keyword weights plus the tiered
\* late-sectional bonus, capped at 15; the returned interference_score is
\* min(sum of the per-report scores, 25) and so lies in [0, 25].
C10_ScoreCaps ==
    pc = "done" =>
        /\ \A i \in 1..Len(ret.details) :
              LET d == ret.details[i]
              IN  /\ d.score <= 15
                  /\ d.score = Min(WeightSum(d.keywords) + TierBonus(d.g1f), 15)
        /\ ret.interference_score = Min(DetailSum(ret.details), 25)
        /\ ret.interference_score >= 0
        /\ ret.interference_score <= 25

\* Two qualifying reports, one capped at 15 by its keywords alone and one
\* capped at 15 through the late-sectional bonus; their sum 30 is capped at 25.
C10_Witness ==
    /\ pc = "done"
    /\ Len(ret.details) = 2
    /\ WeightSum(ret.details[1].keywords) = 18
    /\ WeightSum(ret.details[2].keywords) = 14
    /\ ret.details[2].g1f = 125
    /\ ret.details[1].score = 15
    /\ ret.details[2].score = 15
    /\ ret.interference_score = 25

-----------------------------------------------------------------------------
(* Claims about rank_horses and generate_trio_picks (specification         *)
(* SpecLive)                                                               *)

\* The positions of the ranking that hold a non-vetoed / a vetoed horse.
NonVetoed == {i \in 1..Len(ranking) : ~ranking[i].veto}
Vetoed == {i \in 1..Len(ranking) : ranking[i].veto}

\* C1: in the list rank_horses returns every non-vetoed horse precedes every
\* vetoed horse, every vetoed horse carries the rank "VETO", the non-vetoed
\* horses carry numeric ranks, and of two non-vetoed horses the one with the
\* smaller rank has a total score at least as high.
C1_RankingOrder ==
    pc \in {"ranked", "done"} =>
        /\ \A n \in NonVetoed, v \in Vetoed : n < v
        /\ \A v \in Vetoed : ranking[v].rank = VETO
        /\ \A n \in NonVetoed : ranking[n].rank.t = "num"
        /\ \A a, b \in NonVetoed :
              ranking[a].rank.v < ranking[b].rank.v =>
                  ranking[a].total_score >= ranking[b].total_score

\* The analyses arrive with a vetoed horse first and a lower-scored horse
\* ahead of a higher-scored one, and have been ranked.
C1_Witness ==
    /\ pc = "ranked"
    /\ Len(sim_results) = 4
    /\ sim_results[1].veto
    /\ ~sim_results[2].veto /\ ~sim_results[3].veto
    /\ sim_results[2].total_score < sim_results[3].total_score
    /\ sim_results[4].veto
    /\ ranking[1].horse_name = sim_results[3].horse_name

\* The horse numbers that appear anywhere in the picks.
PickedNumbers ==
    {picks.axis[i] : i \in 1..Len(picks.axis)}
    \cup {picks.partners[i] : i \in 1..Len(picks.partners)}
    \cup UNION {{picks.combinations[i][k] : k \in 1..3} :
                    i \in 1..Len(picks.combinations)}

\* The number of the horse that holds numeric rank k.
NumberOfRank(k) ==
    ranking[CHOOSE i \in 1..Len(ranking) : ranking[i].rank = Num(k)].hrNo

\* C2: the picks generated from a ranking of rank_horses hold no vetoed
\* horse, as axis, challenger or partner or in a combination; when picks are
\* made the axis is the horse of rank 1 and the challengers (the first two
\* of the returned partners) are the horses of rank 2 and rank 3.
C2_NoVetoedPick ==
    pc = "done" =>
        /\ \A v \in Vetoed : ranking[v].hrNo \notin PickedNumbers
        /\ picks.axis # <<>> =>
              /\ picks.axis = <<NumberOfRank(1)>>
              /\ SubSeq(picks.partners, 1, 2) = <<NumberOfRank(2), NumberOfRank(3)>>

\* Picks were made from a ranking in which a vetoed horse outscores the
\* third-ranked horse.
C2_Witness ==
    /\ pc = "done"
    /\ picks.axis # <<>>
    /\ \E v \in Vetoed, n \in NonVetoed :
          /\ ranking[n].rank = Num(3)
          /\ ranking[v].total_score > ranking[n].total_score

\* C7: with fewer than three non-vetoed horses in the ranking (the empty
\* ranking and an all-vetoed ranking included) generate_trio_picks returns
\* the insufficient result: empty axis, partners and combinations and
\* num_bets = 0.
C7_InsufficientField ==
    /\ generate_trio_picks(analyzer, <<>>, <<>>) = Insufficient
    /\ (pc = "done" /\ Cardinality(NonVetoed) < 3) =>
          /\ picks.axis = <<>>
          /\ picks.partners = <<>>
          /\ picks.combinations = <<>>
          /\ picks.num_bets = 0
          /\ picks = Insufficient

\* Four runners of which two are vetoed.
C7_Witness ==
    /\ pc = "done"
    /\ Cardinality(NonVetoed) = 2
    /\ Cardinality(Vetoed) = 2
    /\ picks.num_bets = 0

\* C8: with exactly three non-vetoed horses, none of them flagged dark horse
\* by its analysis, there is exactly one combination, the axis with both
\* challengers, num_bets = 1, and the pool of partners is empty.
C8_ThreeHorsesOneBet ==
    (/\ pc = "done"
     /\ Cardinality(NonVetoed) = 3
     /\ \A n \in NonVetoed : ~ranking[n].dark_horse) =>
        /\ picks.num_bets = 1
        /\ picks.combinations =
              <<SortedTriple(picks.axis[1], picks.partners[1], picks.partners[2])>>
        /\ Len(picks.partners) = 2

\* Three non-vetoed horses and a vetoed one; one of the three is listed as a
\* dark horse by the closer test, yet adds no combination.
C8_Witness ==
    /\ pc = "done"
    /\ Cardinality(NonVetoed) = 3
    /\ Cardinality(Vetoed) = 1
    /\ \A n \in NonVetoed : ~ranking[n].dark_horse
    /\ picks.dark_horses # <<>>
    /\ picks.num_bets = 1

-----------------------------------------------------------------------------
(* Claims about analyze_horse (specification SpecLive) *)

\* The weighted total of the sub-scores an analysis reports, in hundredths
\* of a point (speed_score is in tenths, the other sub-scores in points).
FormulaHundredths(a) ==
    3 * a.speed_score + 30 * a.position_score + 25 * a.training_score
    + 15 * a.interference_score + (IF a.veto THEN -1000 ELSE 1500)

\* total_score (tenths) is the formula's value rounded to one decimal.
RoundedFormula(a) == Abs(10 * a.total_score - FormulaHundredths(a)) <= 5

SameSubScores(a, b) ==
    /\ a.speed_score = b.speed_score
    /\ a.position_score = b.position_score
    /\ a.training_score = b.training_score
    /\ a.interference_score = b.interference_score

\* The card row holds a horse with no history, training, weight or reports.
NoData(row) ==
    /\ row.horse.hist = <<>>
    /\ row.horse.training = <<>>
    /\ row.horse.weight = 0
    /\ row.horse.reports = <<>>

\* Every analysis made so far has the formula's total, rounded, and a horse
\* without data scores 15.0 and is not vetoed.
TotalsFollowFormula ==
    \A i \in 1..Len(sim_results) :
        /\ RoundedFormula(sim_results[i])
        /\ NoData(card[i]) =>
              sim_results[i].total_score = 150 /\ ~sim_results[i].veto

\* The differences total(non-vetoed) - total(vetoed), in tenths of a point,
\* over the pairs of analyses with identical sub-scores.
VetoGaps ==
    {sim_results[i].total_score - sim_results[j].total_score :
        <<i, j>> \in {p \in (1..Len(sim_results)) \X (1..Len(sim_results)) :
                        /\ SameSubScores(sim_results[p[1]], sim_results[p[2]])
                        /\ ~sim_results[p[1]].veto
                        /\ sim_results[p[2]].veto}}

\* C6 as stated: the total is the weighted formula rounded to one decimal, a
\* vetoed horse's total is exactly 25 points below that of a non-vetoed horse
\* with identical sub-scores, and a horse with no data gets 15 and no veto.
C6_ExactlyTwentyFiveBelow ==
    /\ TotalsFollowFormula
    /\ VetoGaps \subseteq {250}

\* C6, amended: as above, but the two totals are rounded separately, so the
\* gap between them is 25 points up to one rounding step: 24.9, 25.0 or 25.1.
C6_TwentyFiveBelowUpToRounding ==
    /\ TotalsFollowFormula
    /\ VetoGaps \subseteq {249, 250, 251}

\* A card with a no-data horse and a vetoed / non-vetoed pair of identical
\* sub-scores whose exact totals (18.45 and -6.55) both fall on a rounding
\* tie; the totals came out 24.9 apart.
C6_Witness ==
    /\ pc = "done"
    /\ \E i \in 1..Len(sim_results) :
          NoData(card[i]) /\ sim_results[i].total_score = 150
    /\ 249 \in VetoGaps

-----------------------------------------------------------------------------
(* Claims about Backtester.run (specification SpecBacktest) *)

DateKey(date) ==
    LET cut == IF \E i \in 1..Len(date) : date[i] = "-"
               THEN (CHOOSE i \in 1..Len(date) :
                        /\ date[i] = "-"
                        /\ \A j \in 1..(i - 1) : date[j] # "-") - 1
               ELSE Len(date)
    IN  SelectSeq(SubSeq(date, 1, cut), LAMBDA c : c # "/")

\* The late sectional of the run a report is matched to: the first run of the
\* history on the report's date; 0 when no run matches.
MatchedLate(rpt, race_history) ==
    LET on == {i \in 1..Len(race_history) :
                  race_history[i].rcDate = DateKey(rpt.date)}
    IN  IF on = {} THEN 0
        ELSE race_history[CHOOSE i \in on : \A j \in on : i <= j].g1f

\* The qualifying reports of a call: interference keyword, no penalty keyword.
QualifyingReports(reports) ==
    {i \in 1..Len(reports) :
        HasInterference(reports[i].report) /\ ~HasPenalty(reports[i].report)}

\* C11: dark_horse is true exactly when some qualifying report is matched to
\* a run with a measured late sectional of at most 13.0 s, or there are at
\* least two qualifying reports; one qualifying report without such a run
\* leaves the flag false.
C11_DarkHorseIff ==
    pc = "done" =>
        LET q == QualifyingReports(args.steward_reports)
            fast == {i \in q :
                        LET g == MatchedLate(args.steward_reports[i],
                                             args.race_history)
                        IN  g > 0 /\ g <= 130}
        IN  /\ ret.dark_horse <=> (fast # {} \/ Cardinality(q) >= 2)
            /\ (Cardinality(q) = 1 /\ fast = {}) => ~ret.dark_horse

\* One qualifying report matched to a run whose late sectional is exactly
\* 13.0 s, next to a penalty report: the flag is set by the sectional alone.
C11_Witness ==
    /\ pc = "done"
    /\ Len(args.steward_reports) = 2
    /\ Cardinality(QualifyingReports(args.steward_reports)) = 1
    /\ \E i \in QualifyingReports(args.steward_reports) :
           MatchedLate(args.steward_reports[i], args.race_history) = 130
    /\ ret.interference_count = 1
    /\ ret.dark_horse

-----------------------------------------------------------------------------
(* Claims about calc_speed_score and calc_training_score (specification    *)
(* SpecScores)                                                              *)

\* C12: under the default configuration the speed score returned by
\* calc_speed_score lies in [0, 100] (0..1000 tenths of a point) and the
\* training score returned by calc_training_score lies in [0, 100], for every
\* history and every training list, empty lists and zero or missing fields
\* included.
C12_ScoresWithinRange ==
    pc = "done" =>
        /\ args.fn = "calc_speed_score" =>
               ret.speed_score >= 0 /\ ret.speed_score <= 1000
        /\ args.fn = "calc_training_score" =>
               ret.training_score >= 0 /\ ret.training_score <= 100

\* A history of runs with sectionals of one second: the two sectional scores
\* and the bonuses add up to more than 100 and the call returns exactly 100.
C12_Witness ==
    /\ pc = "done"
    /\ args.fn = "calc_speed_score"
    /\ Len(args.race_history) = 2
    /\ \A i \in 1..2 : args.race_history[i].s1f = 10 /\ args.race_history[i].g1f = 10
    /\ ret.g1f_vector = "Strong"
    /\ ret.speed_score = 1000

\* The window of a history: its first five runs.
Window(race_history) ==
    [i \in 1..Min(5, Len(race_history)) |-> race_history[i]]

\* Sum and number of the recorded (non-zero) values of a sectional.
FieldSum(runs, field) ==
    LET Acc[i \in 0..Len(runs)] ==
            IF i = 0 THEN 0 ELSE Acc[i - 1] + runs[i][field]
    IN  Acc[Len(runs)]

FieldCount(runs, field) == Cardinality({i \in 1..Len(runs) : runs[i][field] # 0})

\* A total race time that can be used: one number of seconds, or minutes and
\* seconds, that is positive.
UsableTime(rt) ==
    \/ Len(rt) = 1 /\ rt[1].t = "num" /\ rt[1].v > 0
    \/ Len(rt) = 2 /\ rt[1].t = "num" /\ rt[2].t = "num"
                   /\ 60 * rt[1].v + rt[2].v > 0

-----------------------------------------------------------------------------
(* Further claims about rank_horses and analyze_horse (specification       *)
(* SpecLive)                                                               *)

\* The position in the ranking of the horse analysed i-th (horse numbers are
\* unique on a race card).
PlaceOf(i) == CHOOSE k \in 1..Len(ranking) : ranking[k].hrNo = sim_results[i].hrNo

\* C14: the ranking is a permutation of the analysed horses; the K non-vetoed
\* horses hold the ranks 1..K; non-vetoed horses with equal totals keep their
\* input order; the vetoed horses follow in their input order; and ranking
\* the ranked list again changes neither order nor ranks.
C14_StablePermutation ==
    pc \in {"ranked", "done"} =>
        LET n == Len(sim_results)
            K == Cardinality({i \in 1..n : ~sim_results[i].veto})
        IN  /\ Len(ranking) = n
            /\ \A i \in 1..n :
                  Cardinality({k \in 1..n : ranking[k] = sim_results[i]}) = 1
            /\ \A k \in 1..n :
                  IF k <= K
                  THEN ~ranking[k].veto /\ ranking[k].rank = Num(k)
                  ELSE ranking[k].veto /\ ranking[k].rank = VETO
            /\ \A i, j \in 1..n :
                  (/\ i < j
                   /\ ~sim_results[i].veto /\ ~sim_results[j].veto
                   /\ sim_results[i].total_score = sim_results[j].total_score)
                  => PlaceOf(i) < PlaceOf(j)
            /\ \A i, j \in 1..n :
                  (i < j /\ sim_results[i].veto /\ sim_results[j].veto)
                  => PlaceOf(i) < PlaceOf(j)
            /\ rank_horses(analyzer, ranking) = ranking

\* Four horses: a vetoed one first, then two non-vetoed horses with the same
\* total that is beaten by the last horse's: the last is ranked first, the tied
\* pair follows in input order, the vetoed horse closes the list.
C14_Witness ==
    /\ pc = "ranked"
    /\ Len(sim_results) = 4
    /\ sim_results[1].veto
    /\ ~sim_results[2].veto /\ ~sim_results[3].veto /\ ~sim_results[4].veto
    /\ sim_results[2].total_score = sim_results[3].total_score
    /\ sim_results[4].total_score > sim_results[3].total_score
    /\ ranking[1].hrNo = sim_results[4].hrNo
    /\ ranking[2].hrNo = sim_results[2].hrNo
    /\ ranking[3].hrNo = sim_results[3].hrNo
    /\ ranking[4].hrNo = sim_results[1].hrNo

-----------------------------------------------------------------------------
(* Claim about analyze_horse called twice (specification SpecPure)         *)

-----------------------------------------------------------------------------
(* Claims about the dates and races Backtester.run simulates               *)
(* (specification SpecBacktest)                                            *)

\* The cache holds entries for the day when the run reaches it (the entries
\* of the day of DebugDate are removed first).
EntriesCached(day) ==
    day # DebugDate /\ InitialFiles(day, card).entries # None

\* The frames the run works with on a day: the cached ones, else the ones
\* the collection returns, nothing when the collection fails.
FramesOf(day) ==
    IF EntriesCached(day) THEN InitialFiles(day, card)
    ELSE IF Remote(day, card).raises THEN NoFiles
    ELSE Remote(day, card).frames

HasRows(frame) == frame # None /\ frame.rows # <<>>

\* The day yields usable data: entries and results, neither empty.
Usable(day) == HasRows(FramesOf(day).entries) /\ HasRows(FramesOf(day).results)

\* The race days of the period.
RaceDays ==
    {d \in args.start_date..args.end_date : Weekday(d) \in {4, 5, 6}}

NoUsableDate == \A d \in RaceDays : ~Usable(d)

\* An upper bound on the steps run has left: the dates still to load, each
\* with its races (at most two per runner of the card), and the report.
StepsLeft ==
    IF pc = "done" THEN 0
    ELSE (Len(Dates) + 1 - date_i) * (2 * Len(card) + 2)
         + (IF pc = "races" THEN Len(race_groups) ELSE 2 * Len(card) + 1)

\* C16: when no date of the period yields usable data (collection fails or
\* returns empty entries or results on every date, or the period holds no
\* Friday, Saturday or Sunday), run comes to its end and returns the empty
\* result without metrics, and no outcome row is recorded.  The run comes
\* to its end because every step lowers StepsLeft and a step is possible at
\* every control point short of the end: a date to load or the report at
\* "dates", a race to simulate at "races".
C16_NoDataEmptyResult ==
    /\ [](NoUsableDate => (results = <<>> /\ (pc = "done" => ret = EmptyDict)))
    /\ [][StepsLeft' < StepsLeft]_vars
    /\ [](/\ pc \in {"dates", "races", "done"}
          /\ pc = "races" => race_groups # <<>>
          /\ pc = "dates" => date_i \in 1..(Len(Dates) + 1))

\* A period with two race days, one with cached entries whose results were
\* never published, one on which the collection returns nothing: the run
\* has ended with the empty result.
C16_Witness ==
    /\ pc = "done"
    /\ NoUsableDate
    /\ Cardinality(RaceDays) = 2
    /\ \E d \in RaceDays : EntriesCached(d)
    /\ \E d \in RaceDays :
          ~EntriesCached(d) /\ ~Remote(d, card).raises
    /\ ret = EmptyDict

\* The races of a day with a resolvable result: entered, and with a result
\* row whose finishing position is a number; in ascending order.
ResolvableRaces(day) ==
    LET e == FramesOf(day).entries.rows
        r == FramesOf(day).results.rows
    IN  SortedAsc({n \in {e[i].rcNo : i \in 1..Len(e)} :
                      \E j \in 1..Len(r) : r[j].rcNo = n /\ r[j].ord.t = "num"})

\* The (date, race) pairs to simulate from the days first..last.
RECURSIVE ExpectedRaces(_, _)
ExpectedRaces(first, last) ==
    IF first > last THEN <<>>
    ELSE ExpectedRaces(first, last - 1)
         \o (IF last \in RaceDays /\ Usable(last)
             THEN [k \in 1..Len(ResolvableRaces(last)) |->
                      <<last, ResolvableRaces(last)[k]>>]
             ELSE <<>>)

RecordedRaces == [i \in 1..Len(results) |-> <<results[i].date, results[i].race_no>>]

IsPrefix(xs, ys) == Len(xs) <= Len(ys) /\ \A i \in 1..Len(xs) : xs[i] = ys[i]

\* C17: a date whose collection fails or whose entries or results are absent
\* or empty, and a race without resolvable results, is skipped on its own:
\* the outcome rows recorded are at every moment the first of the races the
\* usable dates hold, in order, and at the end of the run they are all of
\* them, the ones after a skipped date or race included.
C17_SkipOnlyTheFailure ==
    LET expected == ExpectedRaces(args.start_date, args.end_date)
    IN  /\ IsPrefix(RecordedRaces, expected)
        /\ pc = "done" => RecordedRaces = expected

\* Three race days: the first is simulated from the cache, the collection
\* fails on the second, and the third is collected with two races of which
\* only the first has results: two outcome rows, one from before and one
\* from after the failure.
C17_Witness ==
    /\ pc = "done"
    /\ Cardinality(RaceDays) = 3
    /\ \E d \in RaceDays : ~EntriesCached(d) /\ Remote(d, card).raises
    /\ \E d \in RaceDays :
          /\ Usable(d)
          /\ Cardinality({FramesOf(d).entries.rows[i].rcNo :
                             i \in 1..Len(FramesOf(d).entries.rows)}) = 2
          /\ Len(ResolvableRaces(d)) = 1
    /\ Len(results) = 2
    /\ results[1].date < results[2].date

-----------------------------------------------------------------------------
(* Claims about the cache and the collector (specifications SpecTune and   *)
(* SpecBacktest)                                                           *)

\* The run is at the head of its loop with a date to load.
AtDate == pc = "dates" /\ date_i <= Len(Dates)

\* The collector has been called for the day in the run with that number.
Collected(run, day) ==
    \E k \in 1..Len(collected) : collected[k] = [run |-> run, date |-> day]

\* The collection of the day leaves no entries: it fails or returns none.
CollectsNoEntries(day) ==
    \/ Remote(day, card).raises
    \/ ~HasRows(Remote(day, card).frames.entries)

\* The run with that number has dealt with the day.
HasPassed(run, day) ==
    \/ tuner.i > run
    \/ /\ tuner.i = run
       /\ pc \in {"dates", "races", "done"}
       /\ \E k \in 1..Len(Dates) : Dates[k] = day /\ k < date_i

\* C18: in every run, a date whose cache lookup yields no entries has the
\* collector called for it; and a date whose collection left no entries in
\* one run is collected again in the next run.
C18_MissIsCollectedAgain ==
    /\ [][(AtDate /\ cache[Dates[date_i]].entries = None)
             => collected' = Append(collected, [run |-> tuner.i,
                                                date |-> Dates[date_i]])]_vars
    /\ [](\A run \in 1..(GridSize - 1), day \in RaceDays :
             (Collected(run, day) /\ CollectsNoEntries(day)
                 /\ HasPassed(run + 1, day))
             => Collected(run + 1, day))

\* The second run has passed a day on which the first run's collection
\* returned frames without entries, and has called the collector for it
\* again; the cache holds no entries file for the day.
C18_Witness ==
    /\ tuner # NoTuner
    /\ tuner.i = 2
    /\ pc = "done"
    /\ \E day \in RaceDays :
          /\ ~Remote(day, card).raises
          /\ ~HasRows(Remote(day, card).frames.entries)
          /\ Collected(1, day)
          /\ Collected(2, day)
          /\ cache[day].entries = None

\* C19: for a date whose entries are in the cache the run works with the
\* cached entries and results, does not call the collector, and leaves the
\* cached files as they are.
C19_CacheHitUntouched ==
    [][(AtDate /\ cache[Dates[date_i]].entries # None)
          => /\ collected' = collected
             /\ cache' = cache
             /\ data'.entries = read_csv(cache[Dates[date_i]].entries)
             /\ data'.results = cache[Dates[date_i]].results]_vars

FracLess(a, b) == a.num * b.den < b.num * a.den
FracEq(a, b) == a.num * b.den = b.num * a.den

\* The configurations whose score is the maximum of the scores recorded.
BestIndices ==
    {k \in 1..Len(tuner.scores) :
        \A j \in 1..Len(tuner.scores) : ~FracLess(tuner.scores[k], tuner.scores[j])}

FirstBest == CHOOSE k \in BestIndices : \A j \in BestIndices : k <= j

\* The k-th configuration of the grid, written out: the wide bonuses 20, 30
\* and 40, each with the standard and then the front-runner corner points.
GridMember(k) ==
    LET w == IF k <= 2 THEN 20 ELSE IF k <= 4 THEN 30 ELSE 40
        front == k % 2 = 0
    IN  [w_bonus |-> w,
         position_weights |->
             << [key |-> <<"4", "M">>, pts |-> IF front THEN 60 ELSE 50],
                [key |-> <<"3", "M">>, pts |-> 40],
                [key |-> <<"2", "M">>, pts |-> IF front THEN 20 ELSE 30],
                [key |-> <<"F">>, pts |-> 20],
                [key |-> <<"M">>, pts |-> 10],
                [key |-> <<"C">>, pts |-> 5],
                [key |-> <<"W">>, pts |-> 0] >>]

-----------------------------------------------------------------------------
(* Claim about the report of tune_parameters (specification SpecTune)      *)

\* What tune_parameters reports after a search whose runs all found races
\* and whose best hit rate is 0: no configuration and the score 0.0.
ZeroHitReport == [best_params |-> EmptyDict, best_score |-> 0]

\* C21: when no configuration's run matched a race (every run returned the
\* empty result) the tuner ends with a "no data" outcome, which is not the
\* report of a best score and a best configuration that a search with a
\* best hit rate of 0 ends with.
C21_NoDataIsReported ==
    (pc = "tuned" /\ NoUsableDate) => ret # ZeroHitReport

\* A search over recorded races in which every configuration's hit rate is
\* 0 ends with that report.
C21_ZeroHitSearch ==
    /\ pc = "tuned"
    /\ results # <<>>
    /\ \A k \in 1..Len(tuner.scores) : tuner.scores[k].num = 0
    /\ ret = ZeroHitReport

-----------------------------------------------------------------------------
(* Claims about the picks and the outcome row of a race (specification     *)
(* SpecRace)                                                               *)

\* The outcome row recorded last, its axis and the names of its picks.
LastRow == results[Len(results)]
AxisName == picks.axis_horse.horse_name
PickNames ==
    {picks.selected_horses[i].horse_name : i \in 1..Len(picks.selected_horses)}

\* The horses the results file of the day places k-th in the race of the
\* row recorded last.
FinishedAt(k) ==
    {data.results.rows[i].hrName : i \in
        {j \in 1..Len(data.results.rows) :
            /\ data.results.rows[j].rcNo = LastRow.race_no
            /\ data.results.rows[j].ord = Num(k)}}

\* C22: a quinella hit is recorded exactly when the axis finished first or
\* second and the other of the first two is among the picks; a trio hit
\* exactly when the axis is among the first three and the other two of the
\* first three are among the picks; with the axis outside the first two
\* (three) no quinella (trio) hit is recorded.
C22_AxisCentricHits ==
    results # <<>> =>
        /\ LastRow.is_qui_hit <=>
              \E k \in 1..2 :
                 /\ AxisName \in FinishedAt(k)
                 /\ \E other \in FinishedAt(3 - k) : other \in PickNames
        /\ LastRow.is_trio_hit <=>
              \E k \in 1..3 :
                 /\ AxisName \in FinishedAt(k)
                 /\ \A j \in (1..3) \ {k} :
                       \E other \in FinishedAt(j) : other \in PickNames
        /\ AxisName \notin (FinishedAt(1) \cup FinishedAt(2))
              => ~LastRow.is_qui_hit
        /\ AxisName \notin (FinishedAt(1) \cup FinishedAt(2) \cup FinishedAt(3))
              => ~LastRow.is_trio_hit

\* The first two finishers are both among the picks and the axis finished
\* third: a trio hit and no quinella hit.
C22_Witness ==
    /\ results # <<>>
    /\ AxisName \in FinishedAt(3)
    /\ \E a \in FinishedAt(1), b \in FinishedAt(2) : {a, b} \subseteq PickNames
    /\ LastRow.is_trio_hit
    /\ ~LastRow.is_qui_hit


\* C23: an analysis is changed after analyze_horse returned it only in its
\* rank: the analyses of a simulated race carry the interference score, the
\* dark-horse flag and its reason of their nested interference block, the
\* interference score is at most 25, and the total is the one the formula
\* gives for the sub-scores.
C23_AnalysisKeptAsComputed ==
    \A i \in 1..Len(sim_results) :
        LET a == sim_results[i]
        IN  /\ a.interference_score = a.interference.interference_score
            /\ a.interference_score <= 25
            /\ a.dark_horse = a.interference.dark_horse
            /\ a.dark_horse_reason = a.interference.dark_horse_reason
            /\ RoundedFormula(a)

-----------------------------------------------------------------------------
(* Further claim about check_weight_veto (specification SpecWeight)        *)

\* The entries of the history whose recorded weight is a positive number.
Weighed(race_history) ==
    {i \in 1..Len(race_history) :
        race_history[i].weight.t = "num" /\ race_history[i].weight.v > 0}

\* C24: with a known current weight and a supplied delta of 0, the
\* comparison weight is that of the most recent entry with a positive
\* recorded weight (entries with a zero, unparsable or missing weight are
\* passed over): the delta is the current weight less that weight, the veto
\* holds exactly when |delta| reaches the threshold, and that weight is
\* reported as the prior weight.
C24_MostRecentPositiveWeight ==
    (/\ pc = "done"
     /\ args.current_weight # 0
     /\ args.weight_diff = 0
     /\ Weighed(args.race_history) # {})
    => LET first == CHOOSE i \in Weighed(args.race_history) :
                        \A j \in Weighed(args.race_history) : i <= j
           prior == args.race_history[first].weight.v
       IN  /\ ret.diff = args.current_weight - prior
           /\ ret.veto <=> Abs(ret.diff) >= analyzer.weight_threshold
           /\ ret.ideal_weight = prior

\* The two most recent entries carry an unparsable and a zero weight, the
\* third 460 kg; the current weight of 465 kg is vetoed against the third.
C24_Witness ==
    /\ pc = "done"
    /\ args.current_weight = 465
    /\ args.weight_diff = 0
    /\ Len(args.race_history) = 3
    /\ args.race_history[1].weight = Str
    /\ args.race_history[2].weight = Num(0)
    /\ args.race_history[3].weight = Num(460)
    /\ ret.veto
    /\ ret.diff = 5
    /\ ret.ideal_weight = 460

-----------------------------------------------------------------------------
(* Claim about calc_position_score (specification SpecPosition)            *)

\* The entries calc_position_score considers: the first N of the history.
PositionWindow ==
    SubSeq(args.race_history, 1, Min(analyzer.recent_n, Len(args.race_history)))

\* The points of the first key of the weight table, in table order, that
\* the code contains; 0 when it contains none.
FirstKeyPts(code) ==
    LET hits == {k \in 1..Len(analyzer.position_weights) :
                    IsSubstr(analyzer.position_weights[k].key, code)}
    IN  IF hits = {} THEN 0
        ELSE analyzer.position_weights[
                 CHOOSE k \in hits : \A j \in hits : k <= j].pts

\* The points the weight table gives for the code as a whole; 0 when the
\* code is no key of the table.
TablePts(code) ==
    LET hits == {k \in 1..Len(analyzer.position_weights) :
                    analyzer.position_weights[k].key = code}
    IN  IF hits = {} THEN 0
        ELSE analyzer.position_weights[CHOOSE k \in hits : TRUE].pts

IsWide(race) ==
    \/ \E i \in 1..Len(race.pos) : Upper(race.pos)[i] = "W"
    \/ \E i \in 1..Len(race.corner) : Upper(race.corner)[i] = "W"

EntryPts(race) ==
    IF race.ord > 3 THEN 0
    ELSE FirstKeyPts(Upper(race.corner)) + TablePts(Upper(race.pos))
         + (IF IsWide(race) THEN analyzer.w_bonus ELSE 0)

RECURSIVE SumEntryPts(_)
SumEntryPts(races) ==
    IF races = <<>> THEN 0
    ELSE EntryPts(Head(races)) + SumEntryPts(Tail(races))

PlacedInWindow == {i \in 1..Len(PositionWindow) : PositionWindow[i].ord <= 3}

\* C25: only the most recent N entries count.  An entry that finished
\* outside the first three contributes 0 and no wide bonus; an entry that
\* finished in the first three contributes the points of the first table
\* key its corner code contains, the points of its running-position code,
\* and the wide bonus once when either code has the wide marker.
\* position_score is the sum over the entries, and w_bonus_count, the
\* number of placed wide entries, is at most the number of placed entries.
C25_PositionScore ==
    pc = "done" =>
        /\ ret.position_score = SumEntryPts(PositionWindow)
        /\ Len(ret.details) = Len(PositionWindow)
        /\ \A i \in 1..Len(PositionWindow) :
              ret.details[i].score = EntryPts(PositionWindow[i])
        /\ ret.w_bonus_count =
              Cardinality({i \in PlacedInWindow : IsWide(PositionWindow[i])})
        /\ ret.w_bonus_count <= Cardinality(PlacedInWindow)

\* Six entries: four unplaced wide runs, then a second place with the wide
\* marker in both codes (30 + 0 + 30 points), then, beyond the window, a
\* win from the front that adds nothing.
C25_Witness ==
    /\ pc = "done"
    /\ Len(args.race_history) = 6
    /\ \A i \in 1..4 : args.race_history[i] = PRace(4, <<"W">>, <<"4", "M">>)
    /\ args.race_history[5] = PRace(2, <<"W">>, <<"2", "M", "W">>)
    /\ args.race_history[6] = PRace(1, <<"F">>, <<"4", "M">>)
    /\ ret.position_score = 60
    /\ ret.w_bonus_count = 1

-----------------------------------------------------------------------------
(* Claim about calc_training_score (specification SpecScores)              *)

\* The strong sessions among the records.
StrongSessions(records) ==
    {i \in 1..Len(records) :
        HasStrongMark(records[i].type) \/ HasStrongMark(records[i].trGbn)}

\* The one bonus tier that applies, in priority order.
BonusTier(count, strong) ==
    CASE count >= TRAINING_MIN_COUNT /\ strong >= 1 -> TRAINING_STRONG_BONUS
      [] count >= TRAINING_MIN_COUNT /\ strong = 0 -> 15
      [] count < TRAINING_MIN_COUNT /\ strong >= 1 -> 10
      [] OTHER -> 0

\* C26: with count the number of training records and strong the number of
\* strong sessions among them, the score is
\* min(100, count * per-session points + bonus), the bonus being 40 for
\* count >= 14 with a strong session, 15 for count >= 14 without, 10 for
\* count < 14 with a strong session, and 0 otherwise; no records score 0.
C26_TrainingTiers ==
    (pc = "done" /\ args.fn = "calc_training_score") =>
        LET count == Len(args.training_records)
            strong == Cardinality(StrongSessions(args.training_records))
        IN  /\ ret.count = count
            /\ ret.strong_count = strong
            /\ ret.training_score =
                  Min(100, count * TRAINING_BASE_PER_SESSION
                           + BonusTier(count, strong))

\* Fifteen sessions, one of them strong: 15 * 2 + 40 = 70.
C26_Witness ==
    /\ pc = "done"
    /\ args.fn = "calc_training_score"
    /\ Len(args.training_records) = 15
    /\ Cardinality(StrongSessions(args.training_records)) = 1
    /\ ret.training_score = 70

-----------------------------------------------------------------------------
(* Claims about generate_trio_picks on large fields (specification         *)
(* SpecField)                                                              *)

\* Picks were made: the ranking holds at least three horses that are not
\* vetoed.
PicksMade == pc = "done" /\ Cardinality(NonVetoed) >= 3

\* The axis, the two challengers and the pool of partners of the picks; the
\* returned partners are the challengers followed by the pool.
TrioAxis == picks.axis[1]
TrioChallengers == {picks.partners[1], picks.partners[2]}
PartnerPool == {picks.partners[i] : i \in 3..Len(picks.partners)}

TripleSet(c) == {c[1], c[2], c[3]}

\* C27: with at least three non-vetoed horses of pairwise distinct numbers
\* the pool of partners holds neither the axis nor a challenger; every
\* combination consists of three distinct numbers, the axis among them; the
\* combinations are the triples of axis, a challenger and a partner, and
\* the triple of the axis and both challengers, each once; and num_bets is
\* their number, twice the size of the pool plus one.
C27_TrioCombinations ==
    (/\ PicksMade
     /\ \A i, j \in 1..Len(ranking) : i # j => ranking[i].hrNo # ranking[j].hrNo)
    => /\ TrioAxis \notin PartnerPool
       /\ TrioChallengers \cap PartnerPool = {}
       /\ \A k \in 1..Len(picks.combinations) :
             /\ Cardinality(TripleSet(picks.combinations[k])) = 3
             /\ TrioAxis \in TripleSet(picks.combinations[k])
       /\ {TripleSet(picks.combinations[k]) : k \in 1..Len(picks.combinations)}
             = {{TrioAxis, c, p} : c \in TrioChallengers, p \in PartnerPool}
               \cup {{TrioAxis} \cup TrioChallengers}
       /\ \A k, m \in 1..Len(picks.combinations) :
             k # m => TripleSet(picks.combinations[k])
                        # TripleSet(picks.combinations[m])
       /\ picks.num_bets = Len(picks.combinations)
       /\ picks.num_bets = 2 * Cardinality(PartnerPool) + 1
       /\ Cardinality(PartnerPool) = Len(picks.partners) - 2

\* A field of seven without a veto in which a challenger and the horse
\* ranked seventh are listed as dark horses: the pool holds the fourth to
\* sixth and the seventh, not the challenger, and there are nine bets.
C27_Witness ==
    /\ PicksMade
    /\ Len(ranking) >= 7
    /\ Vetoed = {}
    /\ \E i \in 1..Len(picks.dark_horses) :
          picks.dark_horses[i].hrNo \in TrioChallengers
    /\ \E i \in 1..Len(picks.dark_horses) :
          picks.dark_horses[i].hrNo = NumberOfRank(7)
    /\ NumberOfRank(7) \in PartnerPool
    /\ Cardinality(PartnerPool) = 4
    /\ picks.num_bets = 9


\* The entry of the dark-horse list for the horse, if it has one, names the
\* closer test among its reasons.
ListedAsCloser(h) ==
    \E k \in 1..Len(picks.dark_horses) :
        /\ picks.dark_horses[k].horse_name = h.horse_name
        /\ \E r \in 1..Len(picks.dark_horses[k].reasons) :
              picks.dark_horses[k].reasons[r] = "closer"

\* C28: the closer test lists a horse as dark horse only when its early
\* sectional mean is above 14.0 s and its late sectional mean is measured
\* and at most 13.0 s; a horse without late sectionals (g1f_avg = 0) is not
\* listed as a closer, and when nothing else makes it a dark horse and it
\* ranks below sixth it is not in the pool of partners.
C28_CloserNeedsLateSectional ==
    PicksMade =>
        \A i \in NonVetoed :
            LET h == ranking[i]
            IN  /\ ListedAsCloser(h) =>
                      /\ h.s1f_avg > 14000
                      /\ h.g1f_avg > 0
                      /\ h.g1f_avg <= 13000
                /\ (/\ h.g1f_avg = 0
                    /\ ~h.dark_horse
                    /\ h.g1f_vector # "Strong"
                    /\ h.rank.v > 6)
                   => h.hrNo \notin PartnerPool


\* The horses below the axis that carry the dark-horse flag of the
\* analysis, and the first three of them in ranking order.
Flagged == {i \in 2..Len(ranking) : ranking[i].dark_horse}
FirstFlagged == {i \in Flagged : Cardinality({j \in Flagged : j < i}) < 3}

\* C29: the picks are the axis, up to two challengers and up to three dark
\* horses, at most six horses, no horse twice; the three dark-horse places
\* go first to the horses flagged as dark horse, in ranking order, so that
\* a flagged horse is among the picks even when it ranks below sixth.
C29_FlaggedDarkHorsesPicked ==
    results # <<>> =>
        /\ Len(picks.challengers) <= 2
        /\ Len(picks.dark_horses) <= 3
        /\ picks.selected_horses
              = <<picks.axis_horse>> \o picks.challengers \o picks.dark_horses
        /\ Cardinality(PickNames) = Len(picks.selected_horses)
        /\ \A i \in FirstFlagged :
              \E k \in 1..Len(picks.dark_horses) :
                  picks.dark_horses[k].horse_name = ranking[i].horse_name

\* What the picks are: the first six of the ranking, flagged or not.
C29_FirstSixOfRanking ==
    results # <<>> =>
        picks.selected_horses = SubSeq(ranking, 1, Min(6, Len(ranking)))

\* A flagged horse ranks seventh and is not among the picks.
C29_FlaggedLeftOut ==
    /\ results # <<>>
    /\ Len(ranking) >= 7
    /\ ranking[7].dark_horse
    /\ ranking[7].interference.dark_horse
    /\ Cardinality(Flagged) = 1
    /\ ranking[7].horse_name \notin PickNames


\* The races entered on the day loaded, and those of them for which the
\* results file holds a finishing position that is a number.
RacesOfDay == {data.entries.rows[i].rcNo : i \in 1..Len(data.entries.rows)}
HasResults(race_no) ==
    \E i \in 1..Len(data.results.rows) :
        /\ data.results.rows[i].rcNo = race_no
        /\ data.results.rows[i].ord.t = "num"

\* C30: the run records one outcome row for every simulated race that has
\* results and none for the others; in every row a return other than 0 goes
\* with the hit flag of its bet type, and a win, quinella or trio hit goes
\* with the place hit, which says that the axis finished in the first
\* three.
C30_OutcomeRows ==
    /\ pc = "done" =>
          /\ \A n \in RacesOfDay :
                Cardinality({k \in 1..Len(results) : results[k].race_no = n})
                   = IF HasResults(n) THEN 1 ELSE 0
          /\ \A k \in 1..Len(results) : results[k].race_no \in RacesOfDay
    /\ \A k \in 1..Len(results) :
          LET r == results[k]
          IN  /\ r.win_return # 0 => r.is_win_hit
              /\ r.qui_return # 0 => r.is_qui_hit
              /\ r.trio_return # 0 => r.is_trio_hit
              /\ (r.is_win_hit \/ r.is_qui_hit \/ r.is_trio_hit) => r.is_hit
              /\ r.is_hit <=> r.actual_rank <= 3

\* The run has ended with one row for the race with results and none for
\* the other race of the day: the axis was second behind another pick, a
\* quinella hit with its return, and no win or trio hit and no return for
\* them.
C30_Witness ==
    /\ pc = "done"
    /\ Cardinality(RacesOfDay) = 2
    /\ Len(results) = 1
    /\ results[1].actual_rank = 2
    /\ results[1].is_qui_hit /\ results[1].qui_return # 0
    /\ ~results[1].is_win_hit /\ results[1].win_return = 0
    /\ ~results[1].is_trio_hit /\ results[1].trio_return = 0
    /\ results[1].is_hit

=============================================================================
